---- MODULE Spec2Model ----
(***************************************************************************)
(* Model of pandoc-spec: the PandocSpec class (process chain supervisor,   *)
(* finalizer, change watcher) and the PuppeteerConfigurator.               *)
(*                                                                         *)
(* Six specifications share the module:                                    *)
(*   Spec        one call of PandocSpec.runPipes, every stage of the chain *)
(*               and every child-process event modelled individually;      *)
(*   SpecWatch   PandocSpec.run with the chokidar watcher and the debounce *)
(*               timers, a pipeline run reduced to its start and its       *)
(*               settlement;                                               *)
(*   SpecOptions the constructor: mergeOptions of the file and parameter   *)
(*               options, the arguments and the stage list;                *)
(*   SpecArg     calls of PandocSpec.arg;                                  *)
(*   SpecCopy    calls of copyFiles;                                       *)
(*   SpecLive    Spec for one configuration, with a fair event loop.       *)
(***************************************************************************)
EXTENDS Integers, Sequences, FiniteSets, TLC

\* ------------------------------------------------------------------------
\* Bounds
\* ------------------------------------------------------------------------

\* Largest number of user-declared json filters in the options.
MaxJsonFilters == 1

\* Largest number of file changes the watched tree undergoes.
MaxEvents == 3

\* Largest number of watch-triggered reruns that are started.
MaxReruns == 3

\* Length of the option watchWait, in clock ticks.
WatchWaitTicks == 2

\* Largest number of variables one source of options declares.
MaxVariables == 2

\* Largest number of filters one source of options declares.
MaxFilters == 2

\* Largest number of files one call of copyFiles is given.
MaxCopyFiles == 2

\* ------------------------------------------------------------------------
\* Values
\* ------------------------------------------------------------------------

\* Exit code of a child terminated by a signal (JavaScript null).
Null == -1

\* Exit codes a stage can close with.
ExitCodes == {0, 1, 2}

\* (code, signal) pairs delivered with a "close" event.
CloseCodes == ExitCodes \cup {Null}

Range(s) == {s[k] : k \in 1..Len(s)}

\* Sequences over S of length at most n.
RECURSIVE SeqsUpTo(_, _)
SeqsUpTo(S, n) ==
    IF n = 0 THEN {<<>>}
    ELSE LET shorter == SeqsUpTo(S, n - 1)
         IN  shorter \cup {Append(s, x) : s \in {t \in shorter : Len(t) = n - 1}, x \in S}

\* ------------------------------------------------------------------------
\* .puppeteer.json (PuppeteerConfigurator)
\* ------------------------------------------------------------------------

noSandboxArg == "--no-sandbox"

\* A file that does not exist.
Absent == [exists |-> FALSE, fmt |-> "", hasArgs |-> FALSE, args |-> <<>>]

\* Text of a file: its layout (fmt) and the JSON value it denotes.
Text(fmt, hasArgs, args) == [exists |-> TRUE, fmt |-> fmt, hasArgs |-> hasArgs, args |-> args]

\* The literal "{}" the constructor falls back to.
EmptyObject == Text("compact", FALSE, <<>>)

\* JSON.parse: the value without the layout.
JSONParse(text) == [hasArgs |-> text.hasArgs, args |-> text.args]

\* `${JSON.stringify(configuration, null, 2)}\n`: two-space layout, trailing newline.
JSONStringify2(configuration) ==
    Text("indent2nl", configuration.hasArgs, configuration.args)

\* Contents .puppeteer.json may have before a run.
PriorFiles ==
    {Absent,
     Text("compact", FALSE, <<>>),
     Text("indent2nl", TRUE, <<>>),
     Text("indent4", TRUE, <<"--disable-gpu">>),
     Text("compact", TRUE, <<noSandboxArg>>),
     Text("indent2nl", TRUE, <<"--disable-gpu", noSandboxArg>>)}

\* new PuppeteerConfigurator(inputDirectory): the recorded state and content,
\* and the input-directory file afterwards.
PuppeteerConfiguratorNew(inputFile, workingFile) ==
    LET state0 == IF inputFile.exists THEN "FromInputPartial"
                  ELSE IF workingFile.exists THEN "FromWorking"
                  ELSE "NotFound"
        content == IF inputFile.exists THEN inputFile
                   ELSE IF workingFile.exists THEN workingFile
                   ELSE EmptyObject
        parsed == JSONParse(content)
        args0 == IF parsed.hasArgs THEN parsed.args ELSE <<>>
        complete == noSandboxArg \in Range(args0)
        args1 == IF complete THEN args0 ELSE Append(args0, noSandboxArg)
        state == IF complete /\ state0 = "FromInputPartial"
                 THEN "FromInputComplete" ELSE state0
        written == state # "FromInputComplete"
    IN  [state |-> state,
         content |-> content,
         written |-> written,
         file |-> IF written
                  THEN JSONStringify2([hasArgs |-> TRUE, args |-> args1])
                  ELSE inputFile]

\* finalize() that restores the parsed configuration instead of the saved text.
PuppeteerFinalizeRewrite(state, content, inputFile) ==
    CASE state \in {"NotFound", "FromWorking"} -> Absent
      [] state = "FromInputPartial" -> JSONStringify2(JSONParse(content))
      [] OTHER -> inputFile

\* PuppeteerConfigurator.finalize(): the input-directory file afterwards.
PuppeteerFinalize(state, content, inputFile) ==
    CASE state \in {"NotFound", "FromWorking"} -> Absent
      [] state = "FromInputPartial" -> content
      [] OTHER -> inputFile

\* Does finalize() touch the file (rmSync or writeFileSync)?
FinalizeWrites(state) == state # "FromInputComplete"

\* ------------------------------------------------------------------------
\* Stage list (PandocSpec.constructor)
\* ------------------------------------------------------------------------

\* User json filters that can be declared.
JsonFilterNames == {"myfilter"}

\* A stage list with pandoc-defref ahead of mermaid-filter.
PipeRunsOfDefrefFirst(filterCommands) ==
    <<"pandoc">> \o <<"pandoc-defref", "mermaid-filter">> \o filterCommands \o <<"pandoc">>

\* A stage list with the user's json filters ahead of the bundled filters.
PipeRunsOfUserFirst(filterCommands) ==
    <<"pandoc">> \o filterCommands \o <<"mermaid-filter", "pandoc-defref">> \o <<"pandoc">>

\* this._pipeRuns: the commands of the chain for the given user json filters.
PipeRunsOf(filterCommands) ==
    <<"pandoc">> \o <<"mermaid-filter", "pandoc-defref">> \o filterCommands \o <<"pandoc">>

\* ------------------------------------------------------------------------
\* Options (mergeOptions, isOptions)
\* ------------------------------------------------------------------------

\* JavaScript values: a type tag and the text String(value) yields, as a
\* sequence of parts (a template string is the concatenation of its parts).
Undefined == [t |-> "undefined", v |-> <<>>]
Str(s) == [t |-> "string", v |-> <<s>>]
Bool(b) == [t |-> "boolean", v |-> <<IF b THEN "true" ELSE "false">>]
Num(s) == [t |-> "number", v |-> <<s>>]
JsNull == [t |-> "null", v |-> <<"null">>]

\* An element of an array-valued option: {key, value} of a variable,
\* {name, className} of a style, {type, path} of a filter, {option, value}
\* of an additional option; a plain string has an empty key.
Entry(k, v) == [k |-> k, v |-> v]

\* The value of an option: an array of entries, or a single value.
Scalar(v) == [arr |-> FALSE, items |-> <<Entry("", v)>>]
Array(items) == [arr |-> TRUE, items |-> items]
Strings(seq) == Array([i \in 1..Len(seq) |-> Entry("", Str(seq[i]))])

\* An object without keys; options objects are functions from the keys they
\* define to the values.
NoOptions == <<>>

\* The parameterOptions argument: undefined, or an options object.
NoParameter == [defined |-> FALSE, options |-> NoOptions]
Parameter(o) == [defined |-> TRUE, options |-> o]

\* What mergeOptions does: throws an error, or returns the options.
Thrown(message) == [ok |-> FALSE, error |-> message, options |-> NoOptions]
Returned(o) == [ok |-> TRUE, error |-> "", options |-> o]

InvalidOptions == "Invalid options from file and/or parameter"

\* isOptions that asks for the input files only.
isOptionsInputOnly(value) == "inputFiles" \in DOMAIN value

\* isOptions: both required keys are present.
isOptions(value) == "inputFiles" \in DOMAIN value /\ "outputFile" \in DOMAIN value

\* A loop body that puts the parameter's array ahead of the file's.
MergeValueParameterFirst(existingValue, value) ==
    IF ~value.arr
    THEN IF existingValue.arr
         THEN [throws |-> TRUE, value |-> existingValue]
         ELSE [throws |-> FALSE, value |-> value]
    ELSE IF ~existingValue.arr
         THEN [throws |-> TRUE, value |-> existingValue]
         ELSE [throws |-> FALSE, value |-> Array(value.items \o existingValue.items)]

\* A loop body in which the parameter's value replaces the file's whatever
\* the shapes of the two.
MergeValueLenient(existingValue, value) ==
    IF value.arr /\ existingValue.arr
    THEN [throws |-> FALSE, value |-> Array(existingValue.items \o value.items)]
    ELSE [throws |-> FALSE, value |-> value]

\* The loop body of mergeOptions for a key both sources define.
MergeValue(existingValue, value) ==
    IF ~value.arr
    THEN IF existingValue.arr
         THEN [throws |-> TRUE, value |-> existingValue]
         ELSE [throws |-> FALSE, value |-> value]
    ELSE IF ~existingValue.arr
         THEN [throws |-> TRUE, value |-> existingValue]
         ELSE [throws |-> FALSE, value |-> Array(existingValue.items \o value.items)]

\* A filter that keeps the first entry of each key (name), with the value of
\* the last one.
RECURSIVE KeepFirstPosition(_, _)
KeepFirstPosition(items, i) ==
    IF i > Len(items) THEN <<>>
    ELSE (IF \E j \in 1..(i - 1) : items[j].k = items[i].k
          THEN <<>>
          ELSE LET last == CHOOSE j \in i..Len(items) :
                             /\ items[j].k = items[i].k
                             /\ \A m \in (j + 1)..Len(items) : items[m].k # items[i].k
               IN  <<items[last]>>) \o KeepFirstPosition(items, i + 1)

\* array.filter(...): the entries no later entry shares the key (name) of,
\* from index i on.
RECURSIVE KeepLast(_, _)
KeepLast(items, i) ==
    IF i > Len(items) THEN <<>>
    ELSE (IF \E j \in (i + 1)..Len(items) : items[j].k = items[i].k
          THEN <<>> ELSE <<items[i]>>) \o KeepLast(items, i + 1)

\* mergeOptions without the removal of duplicate variables and styles.
mergeOptionsKeepDuplicates(fileOptions, parameterOptions) ==
    LET p == IF parameterOptions.defined THEN parameterOptions.options ELSE NoOptions
        both == DOMAIN fileOptions \cap DOMAIN p
        options == [key \in DOMAIN fileOptions \cup DOMAIN p |->
                      IF key \notin DOMAIN p THEN fileOptions[key]
                      ELSE IF key \notin DOMAIN fileOptions THEN p[key]
                      ELSE MergeValue(fileOptions[key], p[key]).value]
    IN  IF \E key \in both : MergeValue(fileOptions[key], p[key]).throws
        THEN Thrown(InvalidOptions)
        ELSE IF ~isOptions(options) THEN Thrown(InvalidOptions)
        ELSE Returned(options)

\* mergeOptions(fileOptions, parameterOptions).
mergeOptions(fileOptions, parameterOptions) ==
    LET p == IF parameterOptions.defined THEN parameterOptions.options ELSE NoOptions
        both == DOMAIN fileOptions \cap DOMAIN p
        options == [key \in DOMAIN fileOptions \cup DOMAIN p |->
                      IF key \notin DOMAIN p THEN fileOptions[key]
                      ELSE IF key \notin DOMAIN fileOptions THEN p[key]
                      ELSE MergeValue(fileOptions[key], p[key]).value]
    IN  IF \E key \in both : MergeValue(fileOptions[key], p[key]).throws
        THEN Thrown(InvalidOptions)
        ELSE IF ~isOptions(options) THEN Thrown(InvalidOptions)
        ELSE IF \E key \in {"variables", "styles"} \cap DOMAIN options : ~options[key].arr
        THEN Thrown("TypeError")
        ELSE Returned([key \in DOMAIN options |->
                         IF key \in {"variables", "styles"}
                         THEN Array(KeepLast(options[key].items, 1))
                         ELSE options[key]])

\* ------------------------------------------------------------------------
\* Command-line arguments (PandocSpec.arg, PandocSpec.constructor)
\* ------------------------------------------------------------------------

\* A command-line argument: `${opt}=${val}` when eq, else the word opt.
OptionValue(option, parts) == [opt |-> option, eq |-> TRUE, val |-> parts]
Word(w) == [opt |-> w, eq |-> FALSE, val |-> <<>>]

\* The empty string, which the constructor filters out of the lists.
NoToken == Word("")

\* value ?? defaultValue: the default stands in for undefined and for null.
Coalesce(value, defaultValue) ==
    IF value.t \notin {"undefined", "null"} THEN value ELSE defaultValue

\* arg with value || defaultValue in place of value ?? defaultValue.
argOr(option, value, defaultValue) ==
    LET falsy == value.t \in {"undefined", "null"} \/ value \in {Bool(FALSE), Str(""), Num("0")}
        finalValue == IF falsy THEN defaultValue ELSE value
    IN  IF finalValue.t # "undefined"
        THEN IF finalValue.t = "boolean"
             THEN IF finalValue = Bool(TRUE) THEN Word(option) ELSE NoToken
             ELSE OptionValue(option, finalValue.v)
        ELSE NoToken

\* PandocSpec.arg(option, value, defaultValue); an omitted defaultValue is
\* Undefined.
arg(option, value, defaultValue) ==
    LET finalValue == Coalesce(value, defaultValue)
    IN  IF finalValue.t # "undefined"
        THEN IF finalValue.t = "boolean"
             THEN IF finalValue = Bool(TRUE) THEN Word(option) ELSE NoToken
             ELSE OptionValue(option, finalValue.v)
        ELSE NoToken

\* array.filter(arg => arg !== "").
RECURSIVE NonEmpty(_)
NonEmpty(args) ==
    IF args = <<>> THEN <<>>
    ELSE (IF Head(args) = NoToken THEN <<>> ELSE <<Head(args)>>) \o NonEmpty(Tail(args))

\* process.cwd() when the constructor runs, and the root of the module.
Cwd == "/work"
ModuleRoot == "/module/"

\* modulePath("../<relativePath>"): the path under the root of the module.
modulePath(relativePath) == [t |-> "string", v |-> <<ModuleRoot, relativePath>>]

\* path.resolve(p): an absolute path is kept, a relative one is appended to
\* the working directory.
Resolve(p) ==
    IF p.v # <<>> /\ p.v[1] \in {Cwd, ModuleRoot} THEN p
    ELSE [t |-> "string", v |-> <<Cwd, "/">> \o p.v]

\* workingPath(relativePath).
workingPath(relativePath) ==
    IF relativePath.t # "undefined" THEN Resolve(relativePath) ELSE Undefined

\* options[key] of a single-valued option, and options[key] ?? [] of an
\* array-valued one.
Get(options, key) ==
    IF key \in DOMAIN options THEN options[key].items[1].v ELSE Undefined
Items(options, key) == IF key \in DOMAIN options THEN options[key].items ELSE <<>>

\* sequence.filter(keep) for entries.
RECURSIVE FilterType(_, _)
FilterType(filters, json) ==
    IF filters = <<>> THEN <<>>
    ELSE (IF (Head(filters).k = "json") = json THEN <<Head(filters)>> ELSE <<>>)
         \o FilterType(Tail(filters), json)

\* Filter paths that contain "/", with path.resolve of each as a command.
PathsWithSlash == {"filters/count.py"}
ResolvedCommand(p) == IF p = "filters/count.py" THEN "/work/filters/count.py" ELSE p

outputFormat(options) == Coalesce(Get(options, "outputFormat"), Str("html"))

\* luaFilters: the resolved paths of the filters whose type is not "json".
luaFilters(options) ==
    LET fs == FilterType(Items(options, "filters"), FALSE)
    IN  [i \in 1..Len(fs) |-> workingPath(fs[i].v)]

\* jsonFilters: the commands of the filters whose type is "json".
jsonFilters(options) ==
    LET fs == FilterType(Items(options, "filters"), TRUE)
    IN  [i \in 1..Len(fs) |->
           IF fs[i].v.v[1] \in PathsWithSlash
           THEN ResolvedCommand(fs[i].v.v[1]) ELSE fs[i].v.v[1]]

inputDirectory(options) ==
    IF Get(options, "inputDirectory").t # "undefined"
    THEN Resolve(Get(options, "inputDirectory")) ELSE Str(Cwd)
outputDirectory(options) ==
    IF Get(options, "outputDirectory").t # "undefined"
    THEN Resolve(Get(options, "outputDirectory")) ELSE Str(Cwd)

templateFile(options) ==
    workingPath(Coalesce(Get(options, "templateFile"),
                         IF outputFormat(options) = Str("html")
                         THEN modulePath("pandoc/template.html") ELSE Undefined))

\* A template variable of the constructor: the key as the parts of its text.
Variable(key, value) == [key |-> key, value |-> value]

TocHeader == Variable(<<"toc-header">>, Str("Table of Contents"))

\* The parts of the text of a declared key: a key that ends in "-style" is
\* split before that suffix, so that it and the key derived from a style of
\* that name are the same text.
KeyText(key) ==
    CASE key = "note-style" -> <<"note", "-style">>
      [] key = "warn-style" -> <<"warn", "-style">>
      [] OTHER -> <<key>>

\* options.variables followed by the styles as "-style" variables.
StyledVariables(options) ==
    LET vs == Items(options, "variables")
        ss == Items(options, "styles")
    IN  [i \in 1..Len(vs) |-> Variable(KeyText(vs[i].k), vs[i].v)]
        \o [i \in 1..Len(ss) |->
              Variable(<<ss[i].k, "-style">>, [t |-> "string", v |-> <<" ">> \o ss[i].v.v])]

\* variables with toc-header pushed whatever the options declare.
variablesPushAlways(options) == Append(StyledVariables(options), TocHeader)

\* variables: toc-header is pushed if no variable has that key.
variables(options) ==
    LET vs == StyledVariables(options)
    IN  IF \E i \in 1..Len(vs) : vs[i].key = <<"toc-header">>
        THEN vs ELSE Append(vs, TocHeader)

\* The text of the --variable option of one variable.
VariableText(variable) ==
    IF variable.value.t # "undefined"
    THEN [t |-> "string", v |-> variable.key \o <<":">> \o variable.value.v]
    ELSE [t |-> "string", v |-> variable.key]

verboseArg(options) == arg("--verbose", Coalesce(Get(options, "verbose"), Bool(FALSE)), Undefined)

\* The text of the --metadata option: `date:${today}`.
DateMetadata == [t |-> "string", v |-> <<"date:", "today">>]

includeFiles == workingPath(modulePath("pandoc/include-files.lua"))
includeCodeFiles == workingPath(modulePath("pandoc/include-code-files.lua"))

\* pandocInputArgs with the user's Lua filters ahead of the bundled ones.
pandocInputArgsUserFirst(options) ==
    LET lua == luaFilters(options)
        reader == Items(options, "additionalReaderOptions")
        files == Items(options, "inputFiles")
    IN  NonEmpty(
          <<verboseArg(options),
            arg("--from", Get(options, "inputFormat"), Str("markdown")),
            arg("--to", Str("json"), Undefined),
            arg("--metadata",
                IF Coalesce(Get(options, "autoDate"), Bool(FALSE)) = Bool(TRUE)
                THEN DateMetadata ELSE Undefined, Undefined),
            arg("--shift-heading-level-by", Get(options, "shiftHeadingLevelBy"), Num("-1"))>>
          \o [i \in 1..Len(lua) |-> arg("--lua-filter", lua[i], Undefined)]
          \o <<arg("--lua-filter", includeFiles, Undefined),
               arg("--lua-filter", includeCodeFiles, Undefined)>>
          \o [i \in 1..Len(reader) |-> arg(reader[i].k, reader[i].v, Undefined)]
          \o [i \in 1..Len(files) |-> Word(files[i].v.v[1])])

\* pandocInputArgs: the arguments of the first stage.
pandocInputArgs(options) ==
    LET lua == luaFilters(options)
        reader == Items(options, "additionalReaderOptions")
        files == Items(options, "inputFiles")
    IN  NonEmpty(
          <<verboseArg(options),
            arg("--from", Get(options, "inputFormat"), Str("markdown")),
            arg("--to", Str("json"), Undefined),
            arg("--metadata",
                IF Coalesce(Get(options, "autoDate"), Bool(FALSE)) = Bool(TRUE)
                THEN DateMetadata ELSE Undefined, Undefined),
            arg("--shift-heading-level-by", Get(options, "shiftHeadingLevelBy"), Num("-1")),
            arg("--lua-filter", includeFiles, Undefined),
            arg("--lua-filter", includeCodeFiles, Undefined)>>
          \o [i \in 1..Len(lua) |-> arg("--lua-filter", lua[i], Undefined)]
          \o [i \in 1..Len(reader) |-> arg(reader[i].k, reader[i].v, Undefined)]
          \o [i \in 1..Len(files) |-> Word(files[i].v.v[1])])

\* path.resolve(outputDirectory, options.outputFile) for a relative file.
OutputPath(options) ==
    [t |-> "string",
     v |-> outputDirectory(options).v \o <<"/">> \o Get(options, "outputFile").v]

\* pandocOutputArgs: the arguments of the last stage.
pandocOutputArgs(options) ==
    LET vs == variables(options)
        css == Items(options, "cssFiles")
        writer == Items(options, "additionalWriterOptions")
    IN  NonEmpty(
          <<verboseArg(options),
            Word("--standalone"),
            arg("--from", Str("json"), Undefined),
            arg("--to", outputFormat(options), Undefined),
            arg("--output", OutputPath(options), Undefined),
            arg("--number-sections", Get(options, "numberSections"), Bool(TRUE)),
            arg("--toc", Get(options, "generateTOC"), Bool(TRUE)),
            arg("--template", templateFile(options), Undefined),
            arg("--include-before-body", workingPath(Get(options, "headerFile")), Undefined),
            arg("--include-after-body", workingPath(Get(options, "footerFile")), Undefined)>>
          \o [i \in 1..Len(vs) |-> arg("--variable", VariableText(vs[i]), Undefined)]
          \o [i \in 1..Len(css) |-> arg("--css", css[i].v, Undefined)]
          \o [i \in 1..Len(writer) |-> arg(writer[i].k, writer[i].v, Undefined)])

\* ------------------------------------------------------------------------
\* Options file, resource files and output directory (PandocSpec.constructor)
\* ------------------------------------------------------------------------

\* A lookup that takes a missing options file for an empty one even when
\* the caller names it.
ReadOptionsFileLenient(kind, content, named) ==
    CASE kind = "absent" -> Returned(NoOptions)
      [] kind = "primitive" -> Thrown("does not contain an object")
      [] OTHER -> Returned(content)

\* The file options the constructor starts from: the parsed content of the
\* options file if it exists and is an object (typeof "object", not null),
\* {} if the default file does not exist; a named file that does not exist
\* is an error.
ReadOptionsFile(kind, content, named) ==
    CASE kind = "absent" ->
           IF named THEN Thrown("Options file not found") ELSE Returned(NoOptions)
      [] kind = "primitive" -> Thrown("does not contain an object")
      [] OTHER -> Returned(content)

\* "optionsFile" in parameterOptions.
NamesOptionsFile(parameterOptions) ==
    parameterOptions.defined /\ "optionsFile" \in DOMAIN parameterOptions.options

\* A string given by the parts of its text.
StrOf(parts) == [t |-> "string", v |-> parts]

Letters ==
    {"a", "b", "c", "d", "e", "f", "g", "h", "i", "j", "k", "l", "m", "n", "o", "p", "q",
     "r", "s", "t", "u", "v", "w", "x", "y", "z", "A", "B", "C", "D", "E", "F", "G", "H",
     "I", "J", "K", "L", "M", "N", "O", "P", "Q", "R", "S", "T", "U", "V", "W", "X", "Y",
     "Z"}
Digits == {"0", "1", "2", "3", "4", "5", "6", "7", "8", "9"}

\* /^[A-Za-z][A-Za-z0-9+\-.]+:/.test(cssFile), for a text whose parts up to
\* the first ":" are single characters.
StartsWithScheme(parts) ==
    \E n \in 2..(Len(parts) - 1) :
      /\ parts[n + 1] = ":"
      /\ parts[1] \in Letters
      /\ \A i \in 2..n : parts[i] \in Letters \cup Digits \cup {"+", "-", "."}

\* A copy set that takes every CSS file, URIs included.
inputResourceFilesAll(options) ==
    LET css == Items(options, "cssFiles")
        resources == Items(options, "resourceFiles")
    IN  [i \in 1..Len(css) |-> css[i].v]
        \o (IF outputFormat(options) = Str("html")
            THEN <<workingPath(modulePath("pandoc/pandoc-spec.scss")),
                   workingPath(modulePath("pandoc/pandoc-spec.css")),
                   workingPath(modulePath("pandoc/pandoc-spec.css.map"))>>
            ELSE <<>>)
        \o [i \in 1..Len(resources) |-> resources[i].v]

\* inputResourceFiles: the CSS files that do not start with a URI scheme,
\* the core CSS files if the output format is HTML, and the resource files.
inputResourceFiles(options) ==
    LET css == SelectSeq(Items(options, "cssFiles"),
                         LAMBDA f : ~StartsWithScheme(f.v.v))
        resources == Items(options, "resourceFiles")
    IN  [i \in 1..Len(css) |-> css[i].v]
        \o (IF outputFormat(options) = Str("html")
            THEN <<workingPath(modulePath("pandoc/pandoc-spec.scss")),
                   workingPath(modulePath("pandoc/pandoc-spec.css")),
                   workingPath(modulePath("pandoc/pandoc-spec.css.map"))>>
            ELSE <<>>)
        \o [i \in 1..Len(resources) |-> resources[i].v]

\* options.cleanOutput ?? false.
CleanOutput(options) == Coalesce(Get(options, "cleanOutput"), Bool(FALSE)) = Bool(TRUE)

\* The output directory after rmSync (if cleanOutput) and mkdirSync (if it
\* does not exist).
OutputDirAfter(clean, dir) == IF clean \/ dir = "absent" THEN "fresh" ELSE dir

\* A constructor that creates the output directory before it resolves the
\* options.
SideEffectsEager(merged, dir, n, cwd) ==
    IF merged.ok
    THEN [outputDir |-> OutputDirAfter(CleanOutput(merged.options), dir),
          removals |-> n + (IF CleanOutput(merged.options) THEN 1 ELSE 0),
          workingDirectory |-> inputDirectory(merged.options)]
    ELSE [outputDir |-> OutputDirAfter(FALSE, dir), removals |-> n, workingDirectory |-> cwd]

\* What the constructor does to the output directory and the working
\* directory: nothing when the options are not resolved (it has thrown by
\* then), else rmSync, mkdirSync and process.chdir(inputDirectory).
SideEffects(merged, dir, n, cwd) ==
    IF merged.ok
    THEN [outputDir |-> OutputDirAfter(CleanOutput(merged.options), dir),
          removals |-> n + (IF CleanOutput(merged.options) THEN 1 ELSE 0),
          workingDirectory |-> inputDirectory(merged.options)]
    ELSE [outputDir |-> dir, removals |-> n, workingDirectory |-> cwd]

\* ------------------------------------------------------------------------
\* copyFiles (file.ts)
\* ------------------------------------------------------------------------

\* Paths as sequences of segments; an absolute path starts with "/".
IsAbsolutePath(p) == p # <<>> /\ p[1] = "/"

\* The working directory of a run: the input directory.
RunDirectory == <<"/", "work", "in">>

\* path.resolve(p), and path.resolve(directory, p): the rightmost absolute
\* path wins, what is left of it is dropped.
PathResolve(p) == IF IsAbsolutePath(p) THEN p ELSE RunDirectory \o p
PathResolveIn(directory, p) == IF IsAbsolutePath(p) THEN p ELSE PathResolve(directory) \o p

\* copyFiles from the i-th source file on; copies are the copies made so
\* far.  The loop stops at the first file that is its own destination.
RECURSIVE CopyFrom(_, _, _, _)
CopyFrom(sources, i, toDirectory, copies) ==
    IF i > Len(sources) THEN [called |-> TRUE, threw |-> FALSE, copies |-> copies]
    ELSE LET sourceFile == sources[i]
             destinationFile == PathResolveIn(toDirectory, sourceFile)
         IN  IF destinationFile = PathResolve(sourceFile)
             THEN [called |-> TRUE, threw |-> TRUE, copies |-> copies]
             ELSE CopyFrom(sources, i + 1, toDirectory,
                           Append(copies, [from |-> sourceFile, to |-> destinationFile]))

\* copyFiles(pattern, toDirectory), every pattern the path of one file that
\* exists.
copyFiles(pattern, toDirectory) == CopyFrom(pattern, 1, toDirectory, <<>>)

\* ------------------------------------------------------------------------
\* State
\* ------------------------------------------------------------------------

VARIABLES
    pipeRuns,       \* this._pipeRuns (commands), built by the constructor
    outputDiffers,  \* this._outputDirectory !== this._inputDirectory
    runState,       \* runPipes: "constructed", "running", "succeeded", "failed", "crashed"
    runError,       \* the rejection reason of runPipes
    child,          \* per stage: "none", "spawning", "running", "closed", "failed"
    exitCode,       \* per stage: the code of its close event
    promise,        \* per stage: the promise created in spawn(index)
    spawnCalls,     \* per stage: number of child_process.spawn calls made for it
    firstFailure,   \* first stage observed to close with a nonzero code
    inputFile,      \* .puppeteer.json in the input directory
    cfgState,       \* PuppeteerConfigurator._state
    cfgContent,     \* PuppeteerConfigurator._configurationFileContent
    priorFile,      \* .puppeteer.json as it was before the run
    startFile,      \* .puppeteer.json in the directory the process was started in
    fileWrites,     \* writes and removals of .puppeteer.json made by the run
    finalized,      \* number of executions of the finally callback
    copied,         \* copyFiles: "no", "done", "threw"
    copySaw,        \* .puppeteer.json in the input directory when copyFiles ran
    mermaidErr,     \* mermaid-filter.err: "absent", "empty", "nonempty"
    watch,          \* options.watch: "undefined", "false", "true", or a non-boolean
    githubActions,  \* process.env["GITHUB_ACTIONS"]: "undefined" or its value
    optionsFile,    \* json filters declared in the options file, as it is now
    constructedFrom,\* content of the options file when the constructor read it
    initialRun,     \* the run started by run(): "running", "succeeded", "failed"
    inflight,       \* number of watch-triggered runs whose runPipes has not settled
    timer,          \* per watcher: ticks left on its pending timer, or NoTimer
    pending,        \* per watcher: an "all" event is waiting to be handled
    events,         \* number of file changes so far
    quiet,          \* ticks since the last file change, up to WatchWaitTicks
    burstOpen,      \* a burst of file changes seen by a watcher has not ended yet
    bursts,         \* number of bursts that have ended
    reruns,         \* number of watch-triggered reruns started
    lastRunStages,  \* stage list executed by the latest rerun
    fileAtTrigger,  \* content of the options file when the latest rerun started
    configurators,  \* the PuppeteerConfigurator of each runPipes call in flight
    log,            \* what the logger has written: the start of each rerun
                    \* ("Command[0]") and the errors of the timer callback
    aborts,         \* number of pending timers cancelled by abortController.abort()
    thisOutputDirectory, \* this._outputDirectory of the watched object
    fileOptions,    \* the object read from the options file ({} without a file)
    parameterOptions, \* the parameterOptions argument of the constructor
    thisOptions,    \* outcome of mergeOptions; this._options when it returned
    pipeArgs,       \* this._pipeRuns (args of each stage)
    argCall,        \* the latest call of PandocSpec.arg and its result
    fileKind,       \* the options file: "absent", or what its JSON content is:
                    \* "object", "array" or "primitive"
    cliFlags,       \* the command line exec() parses: "valid" or "malformed"
    cleanOutput,    \* options.cleanOutput ?? false of the constructed object
    workingDirectory, \* process.cwd()
    thisInputResourceFiles, \* this._inputResourceFiles
    outputDir,      \* the output directory: "absent", "stale" (as left by an
                    \* earlier build) or "fresh" (as the constructor leaves it)
    removals,       \* number of times the output directory was removed
    copyArgs,       \* the arguments of a call of copyFiles
    copyResult      \* what the call did: the copies made, and whether it threw

chainVars == <<pipeRuns, outputDiffers, startFile, runState, runError, child, exitCode, promise,
               spawnCalls, firstFailure, inputFile, cfgState, cfgContent, priorFile,
               fileWrites, finalized, copied, copySaw, mermaidErr>>

watchVars == <<watch, githubActions, optionsFile, constructedFrom, initialRun, inflight,
               timer, pending, events, quiet, burstOpen, bursts, reruns, lastRunStages,
               fileAtTrigger, configurators, log, aborts, thisOutputDirectory>>

ctorVars == <<fileOptions, parameterOptions, thisOptions, pipeArgs, argCall, fileKind,
              cliFlags, cleanOutput, workingDirectory, thisInputResourceFiles, copyArgs,
              copyResult>>

optVars == <<ctorVars, outputDir, removals>>

vars == <<chainVars, watchVars, optVars>>

NStages == Len(pipeRuns)
Stages == 1..NStages

\* ------------------------------------------------------------------------
\* Promises
\* ------------------------------------------------------------------------

NoPromise == [state |-> "none", kind |-> "", index |-> 0, code |-> 0]
Pending == [state |-> "pending", kind |-> "", index |-> 0, code |-> 0]
\* resolve(this.spawn(index + 1, ...)): the promise follows the next stage's.
Locked == [state |-> "locked", kind |-> "", index |-> 0, code |-> 0]
Fulfilled == [state |-> "fulfilled", kind |-> "", index |-> 0, code |-> 0]
Rejected(kind, index, code) ==
    [state |-> "rejected", kind |-> kind, index |-> index, code |-> code]
NoError == [kind |-> "", index |-> 0, code |-> 0]
NoFailure == [index |-> 0, code |-> 0]

\* The promise a stage's promise is settled by: a promise resolved with
\* another promise takes that promise's outcome.
RECURSIVE Follow(_, _)
Follow(pr, i) == IF pr[i].state = "locked" THEN Follow(pr, i + 1) ELSE pr[i]

\* A "close" listener in which the last stage resolves whatever its code.
CloseSettleLastResolves(p, index, isLast, code) ==
    IF p.state # "pending" THEN p
    ELSE IF code # Null
         THEN IF isLast THEN Fulfilled
              ELSE IF code # 0 THEN Rejected("status", index, code) ELSE p
         ELSE Rejected("signal", index, Null)

\* The "close" listener: resolve and reject have no effect on a promise that
\* is already resolved (settled, or locked to the next stage's promise).
CloseSettle(p, index, isLast, code) ==
    IF p.state # "pending" THEN p
    ELSE IF code # Null
         THEN IF code # 0 THEN Rejected("status", index, code)
              ELSE IF isLast THEN Fulfilled ELSE p
         ELSE Rejected("signal", index, Null)

\* ------------------------------------------------------------------------
\* runPipes: continuation once the promise of spawn(0) settles
\* ------------------------------------------------------------------------

\* The .puppeteer.json that copyFiles finds in the input directory, given
\* the file as the run has it (before) and as finalize() leaves it (after):
\* the copy is in the .then callback and finalize() in the .finally
\* callback chained after it, so the copy runs first.
CopySees(before, after) == before

\* .then(copy).finally(finalize) of runPipes, run when the chain's promise
\* has settled; file, writes and merr are the values the handler has
\* produced so far.
Continue(wasRunning, pr, file, writes, merr) ==
    LET o == Follow(pr, 1)
    IN  IF wasRunning /\ o.state \in {"fulfilled", "rejected"}
        THEN \E copyThrows \in BOOLEAN :
               LET copies == o.state = "fulfilled" /\ outputDiffers
               IN  /\ copyThrows => copies
                   /\ copied' = IF ~copies THEN "no"
                                ELSE IF copyThrows THEN "threw" ELSE "done"
                   /\ copySaw' = IF copies
                                 THEN CopySees(file, PuppeteerFinalize(cfgState', cfgContent',
                                                                       file))
                                 ELSE copySaw
                   /\ runState' = IF o.state = "fulfilled" /\ ~copyThrows
                                  THEN "succeeded" ELSE "failed"
                   /\ runError' = IF o.state = "rejected"
                                  THEN [kind |-> o.kind, index |-> o.index, code |-> o.code]
                                  ELSE IF copyThrows
                                       THEN [kind |-> "copy", index |-> 0, code |-> 0]
                                       ELSE NoError
                   /\ finalized' = finalized + 1
                   /\ inputFile' = PuppeteerFinalize(cfgState', cfgContent', file)
                   /\ fileWrites' = writes + (IF FinalizeWrites(cfgState') THEN 1 ELSE 0)
                   /\ mermaidErr' = IF merr = "empty" THEN "absent" ELSE merr
        ELSE /\ runState' = IF runState = "constructed" THEN "running" ELSE runState
             /\ inputFile' = file
             /\ fileWrites' = writes
             /\ mermaidErr' = merr
             /\ UNCHANGED <<runError, finalized, copied, copySaw>>

\* ------------------------------------------------------------------------
\* Actions of Spec
\* ------------------------------------------------------------------------

\* A spawn that starts the next stage at once, without awaiting "spawn".
SpawnStageEager(ch, pr, calls, index, throws) ==
    LET both == ~throws /\ index < Len(ch)
    IN  [child |-> IF throws THEN ch
                   ELSE [k \in DOMAIN ch |->
                           IF k = index \/ (both /\ k = index + 1) THEN "spawning" ELSE ch[k]],
         promise |-> [k \in DOMAIN pr |->
                        IF k = index THEN (IF throws THEN Rejected("throw", index, 0) ELSE Pending)
                        ELSE IF both /\ k = index + 1 THEN Pending ELSE pr[k]],
         spawnCalls |-> [k \in DOMAIN calls |->
                           IF k = index \/ (both /\ k = index + 1) THEN calls[k] + 1
                           ELSE calls[k]]]

\* this.spawn(index): child_process.spawn either returns a child or throws;
\* a throw rejects the promise of the async function.
SpawnStage(ch, pr, calls, index, throws) ==
    [child |-> IF throws THEN ch ELSE [ch EXCEPT ![index] = "spawning"],
     promise |-> [pr EXCEPT ![index] = IF throws THEN Rejected("throw", index, 0)
                                       ELSE Pending],
     spawnCalls |-> [calls EXCEPT ![index] = @ + 1]]

\* Contents .puppeteer.json may have in the directory the process was
\* started in.
StartFiles == {Absent, Text("indent4", TRUE, <<"--disable-gpu">>)}

\* The file the relative path ".puppeteer.json" names when runPipes() is
\* called: paths are relative to process.cwd(), which the constructor has
\* set to the input directory with process.chdir(inputDirectory).
WorkingFile(inputDirectoryFile, startDirectoryFile) == inputDirectoryFile

\* runPipes(): new PuppeteerConfigurator(inputDirectory), then spawn(0, null).
\* The working directory is the input directory (process.chdir in the
\* constructor), so the relative lookup finds the input-directory file.
RunPipes ==
    /\ runState = "constructed"
    /\ \E throws \in BOOLEAN :
         LET cfg == PuppeteerConfiguratorNew(inputFile, WorkingFile(inputFile, startFile))
             sp == SpawnStage(child, promise, spawnCalls, 1, throws)
         IN  /\ cfgState' = cfg.state
             /\ cfgContent' = cfg.content
             /\ priorFile' = inputFile
             /\ child' = sp.child
             /\ promise' = sp.promise
             /\ spawnCalls' = sp.spawnCalls
             /\ Continue(TRUE, sp.promise, cfg.file,
                         IF cfg.written THEN 1 ELSE 0, mermaidErr)
    /\ UNCHANGED <<pipeRuns, outputDiffers, startFile, exitCode, firstFailure>>
    /\ UNCHANGED <<watchVars, optVars>>

\* The "spawn" event of stage i.  For every stage but the last the listener
\* resolves the stage's promise with this.spawn(index + 1, ...).
OnSpawn(i) ==
    /\ runState \in {"running", "succeeded", "failed"}
    /\ child[i] = "spawning"
    /\ IF i < NStages
       THEN \E throws \in BOOLEAN :
              LET sp == SpawnStage([child EXCEPT ![i] = "running"], promise, spawnCalls,
                                   i + 1, throws)
                  pr == [sp.promise EXCEPT ![i] = IF @.state = "pending" THEN Locked ELSE @]
              IN  /\ child' = sp.child
                  /\ promise' = pr
                  /\ spawnCalls' = sp.spawnCalls
                  /\ UNCHANGED <<cfgState, cfgContent>>
                  /\ Continue(runState = "running", pr, inputFile, fileWrites, mermaidErr)
       ELSE /\ child' = [child EXCEPT ![i] = "running"]
            /\ UNCHANGED <<promise, spawnCalls, cfgState, cfgContent, runState, runError,
                           finalized, copied, copySaw, inputFile, fileWrites, mermaidErr>>
    /\ UNCHANGED <<pipeRuns, outputDiffers, startFile, exitCode, firstFailure, priorFile>>
    /\ UNCHANGED <<watchVars, optVars>>

\* Stage i fails to start (for instance ENOENT): the child emits "error"
\* and no "spawn".  No "error" listener is registered, so the event is
\* thrown as an uncaught exception.
SpawnError(i) ==
    /\ runState \in {"running", "succeeded", "failed"}
    /\ child[i] = "spawning"
    /\ child' = [child EXCEPT ![i] = "failed"]
    /\ runState' = "crashed"
    /\ UNCHANGED <<pipeRuns, outputDiffers, startFile, runError, exitCode, promise, spawnCalls,
                   firstFailure, inputFile, cfgState, cfgContent, priorFile, fileWrites,
                   finalized, copied, copySaw, mermaidErr>>
    /\ UNCHANGED <<watchVars, optVars>>

\* The "close" event of stage i with the given code (Null: killed by a signal).
OnClose(i, code) ==
    /\ runState \in {"running", "succeeded", "failed"}
    /\ child[i] = "running"
    /\ child' = [child EXCEPT ![i] = "closed"]
    /\ exitCode' = [exitCode EXCEPT ![i] = code]
    /\ firstFailure' = IF firstFailure = NoFailure /\ code \notin {0, Null}
                       THEN [index |-> i, code |-> code] ELSE firstFailure
    /\ \E merr \in IF pipeRuns[i] = "mermaid-filter" THEN {"empty", "nonempty"}
                   ELSE {mermaidErr} :
         LET pr == [promise EXCEPT ![i] = CloseSettle(@, i, i = NStages, code)]
         IN  /\ promise' = pr
             /\ UNCHANGED <<cfgState, cfgContent>>
             /\ Continue(runState = "running", pr, inputFile, fileWrites, merr)
    /\ UNCHANGED <<pipeRuns, outputDiffers, startFile, spawnCalls, priorFile>>
    /\ UNCHANGED <<watchVars, optVars>>

\* No timer is pending.
NoTimer == -1

\* copyFiles has not been called.
NoCopyArgs == [pattern |-> <<>>, toDirectory |-> <<>>]
NotCopied == [called |-> FALSE, threw |-> FALSE, copies |-> <<>>]

\* mergeOptions has not been called, and neither has arg.
NotMerged == [ok |-> FALSE, error |-> "", options |-> NoOptions]
NoCall == [called |-> FALSE, option |-> "", value |-> Undefined,
           defaultValue |-> Undefined, result |-> NoToken]

\* The options of an object that is already constructed are not looked at.
OptionsIdle ==
    /\ fileOptions = NoOptions
    /\ parameterOptions = NoParameter
    /\ thisOptions = NotMerged
    /\ pipeArgs = <<>>
    /\ argCall = NoCall
    /\ fileKind = "object"
    /\ cliFlags = "valid"
    /\ workingDirectory = Str(Cwd)
    /\ thisInputResourceFiles = <<>>
    /\ copyArgs = NoCopyArgs
    /\ copyResult = NotCopied

\* The output directory of an object constructed without cleanOutput.
OutputKept ==
    /\ cleanOutput = FALSE
    /\ outputDir = "fresh"
    /\ removals = 0

\* The state of one runPipes call before it starts.
ChainInit ==
    /\ outputDiffers \in BOOLEAN
    /\ runState = "constructed"
    /\ runError = NoError
    /\ child = [i \in 1..Len(pipeRuns) |-> "none"]
    /\ exitCode = [i \in 1..Len(pipeRuns) |-> Null]
    /\ promise = [i \in 1..Len(pipeRuns) |-> NoPromise]
    /\ spawnCalls = [i \in 1..Len(pipeRuns) |-> 0]
    /\ firstFailure = NoFailure
    /\ inputFile \in PriorFiles
    /\ cfgState = "none"
    /\ cfgContent = Absent
    /\ priorFile = inputFile
    /\ startFile \in (IF inputFile.exists THEN {Absent} ELSE StartFiles)
    /\ fileWrites = 0
    /\ finalized = 0
    /\ copied = "no"
    /\ copySaw = Absent
    /\ mermaidErr = "absent"

Init ==
    /\ optionsFile \in SeqsUpTo(JsonFilterNames, MaxJsonFilters)
    /\ pipeRuns = PipeRunsOf(optionsFile)
    /\ ChainInit
    /\ constructedFrom = optionsFile
    /\ watch = "undefined"
    /\ githubActions = "undefined"
    /\ initialRun = "running"
    /\ inflight = 0
    /\ timer = <<>>
    /\ pending = <<>>
    /\ events = 0
    /\ quiet = WatchWaitTicks
    /\ burstOpen = FALSE
    /\ bursts = 0
    /\ reruns = 0
    /\ lastRunStages = <<>>
    /\ fileAtTrigger = <<>>
    /\ configurators = <<>>
    /\ log = <<>>
    /\ aborts = 0
    /\ thisOutputDirectory = <<>>
    /\ OptionsIdle
    /\ OutputKept

Next ==
    \/ RunPipes
    \/ \E i \in Stages : OnSpawn(i)
    \/ \E i \in Stages : SpawnError(i)
    \/ \E i \in Stages, code \in CloseCodes : OnClose(i, code)

Spec == Init /\ [][Next]_vars

\* The runs of one configuration in which every event that can occur does
\* occur: a child that was spawned emits "spawn" or "error", a child that
\* runs closes, and the event loop calls the listeners.
InitLive ==
    /\ Init
    /\ optionsFile = <<>>
    /\ inputFile = Absent

SpecLive == InitLive /\ [][Next]_vars /\ WF_vars(Next)

\* ------------------------------------------------------------------------
\* Change watcher (PandocSpec.run)
\* ------------------------------------------------------------------------

\* Values of options.watch: absent, the two booleans, and a value that is
\* truthy without being the boolean true.
WatchValues == {"undefined", "false", "true", "string"}

\* Values of the environment variable GITHUB_ACTIONS.
GithubActionsValues == {"undefined", "true", "false"}

\* The watch condition with a truthiness test in place of === true.
WatchEnabledTruthy(w, gha) == w \notin {"undefined", "false"} /\ gha # "true"

\* options.watch === true && process.env["GITHUB_ACTIONS"] !== "true"
WatchEnabled(w, gha) == w = "true" /\ gha # "true"

\* A rerun that rebuilds the stage list from the options file.
RunStagesReread(runs, file) == PipeRunsOf(file)

\* The stage list a call of this.run() executes: spawn reads this._pipeRuns,
\* which only the constructor assigns.
RunStages(runs, file) == runs

\* A rerun that cleans the output directory as the constructor does.
RunRemovalsClean(clean, n) == IF clean THEN n + 1 ELSE n

\* The removals of the output directory after a call of this.run(): run()
\* and runPipes() remove nothing, fs.rmSync(outputDirectory) is in the
\* constructor only, and a rerun is a call of run() on the same object.
RunRemovals(clean, n) == n

Watchers == 1..Len(timer)

\* What a PuppeteerConfigurator constructed over the given input-directory
\* file keeps until finalize(): its state and the content it read.
Configurator(file) ==
    LET cfg == PuppeteerConfiguratorNew(file, file)
    IN  [state |-> cfg.state, content |-> cfg.content]

\* Contents .puppeteer.json may have before a watched build.
WatchedPriorFiles ==
    {Absent, Text("indent4", TRUE, <<"--disable-gpu">>), Text("compact", TRUE, <<noSandboxArg>>)}

RemoveAt(seq, k) == SubSeq(seq, 1, k - 1) \o SubSeq(seq, k + 1, Len(seq))

\* The variables of the chain a run of the watch loop leaves alone.
chainVarsButFile ==
    <<pipeRuns, outputDiffers, startFile, runState, runError, child, exitCode, promise,
      spawnCalls,
      firstFailure, cfgState, cfgContent, priorFile, fileWrites, finalized, copied, copySaw,
      mermaidErr>>

\* A .catch that logs every rejection.
TimerCatchLogsAll(l, name) == Append(l, "Timer failed")

\* A .catch that logs nothing.
TimerCatchSilent(l, name) == l

\* The .catch of the timer promise: an error named AbortError is ignored,
\* any other is logged with logger.error("Timer failed", e).
TimerCatch(l, name) == IF name # "AbortError" THEN Append(l, "Timer failed") ELSE l

\* A continuation of runPipes() that is called however the run settled.
RunSettled(ok) == TRUE

\* Is the .then callback of run() called?  Only when the promise of
\* runPipes() is fulfilled; a rejection passes it by.
RunResolved(ok) == ok

\* The input directory of the watched object, and the output directories
\* it may have: the input directory itself (the default), a directory in
\* it, a directory elsewhere.
InputDirectory == <<"work">>
OutputDirectories == {<<"work">>, <<"work", "out">>, <<"site">>}

\* path.startsWith(`${directory}/`)
IsUnder(path, directory) ==
    Len(path) > Len(directory) /\ SubSeq(path, 1, Len(directory)) = directory

\* Does a watcher report a write of the output file?  It watches "." (the
\* input directory) and ignores the output directory only if that is a
\* subdirectory of the input directory.
OutputWatched(outDirectory, inDirectory) ==
    LET file == Append(outDirectory, "spec.html")
        ignored == IF IsUnder(outDirectory, inDirectory) THEN {outDirectory} ELSE {}
    IN  IsUnder(file, inDirectory) /\ \A i \in ignored : ~IsUnder(file, i)

\* The .then callback of run(): register a chokidar watcher with its own
\* abortController when watching is enabled.
RegisterWatcher ==
    IF WatchEnabled(watch, githubActions)
    THEN /\ timer' = Append(timer, NoTimer)
         /\ pending' = Append(pending, FALSE)
    ELSE UNCHANGED <<timer, pending>>

\* The run started by run() from exec settles.
InitialSettle(ok) ==
    /\ initialRun = "running"
    /\ initialRun' = IF ok THEN "succeeded" ELSE "failed"
    /\ inputFile' = PuppeteerFinalize(configurators[1].state, configurators[1].content,
                                      inputFile)
    /\ configurators' = Tail(configurators)
    /\ IF RunResolved(ok) THEN RegisterWatcher ELSE UNCHANGED <<timer, pending>>
    /\ UNCHANGED <<watch, githubActions, optionsFile, constructedFrom, inflight, events,
                   quiet, burstOpen, bursts, reruns, lastRunStages, fileAtTrigger, log,
                   aborts, thisOutputDirectory>>
    /\ UNCHANGED <<chainVarsButFile, optVars>>

\* A file in the watched tree changes; every registered watcher will emit
\* an "all" event for it.  A timer that is due fires before a later change.
FileChange ==
    /\ events < MaxEvents
    /\ \A w \in Watchers : timer[w] # 0
    /\ events' = events + 1
    /\ quiet' = 0
    /\ burstOpen' = (burstOpen \/ Len(timer) > 0)
    /\ pending' = [w \in Watchers |-> TRUE]
    /\ UNCHANGED <<watch, githubActions, optionsFile, constructedFrom, initialRun, inflight,
                   timer, bursts, reruns, lastRunStages, fileAtTrigger, configurators, log,
                   aborts, thisOutputDirectory>>
    /\ UNCHANGED <<chainVars, optVars>>

\* The "all" listener of watcher w: abort the pending timer, start a new one.
\* The promise of an aborted timer rejects with an AbortError, which the
\* .catch of the timer handles.
OnAll(w) ==
    /\ pending[w]
    /\ pending' = [pending EXCEPT ![w] = FALSE]
    /\ timer' = [timer EXCEPT ![w] = WatchWaitTicks]
    /\ IF timer[w] # NoTimer
       THEN aborts' = aborts + 1 /\ log' = TimerCatch(log, "AbortError")
       ELSE UNCHANGED <<aborts, log>>
    /\ UNCHANGED <<watch, githubActions, optionsFile, constructedFrom, initialRun, inflight,
                   events, quiet, burstOpen, bursts, reruns, lastRunStages, fileAtTrigger,
                   configurators, thisOutputDirectory>>
    /\ UNCHANGED <<chainVars, optVars>>

\* One tick of quiet passes: no event is waiting and no timer is due.
Tick ==
    /\ \A w \in Watchers : ~pending[w] /\ timer[w] # 0
    /\ quiet < WatchWaitTicks
    /\ quiet' = quiet + 1
    /\ timer' = [w \in Watchers |-> IF timer[w] > 0 THEN timer[w] - 1 ELSE timer[w]]
    /\ IF burstOpen /\ quiet + 1 = WatchWaitTicks
       THEN bursts' = bursts + 1 /\ burstOpen' = FALSE
       ELSE UNCHANGED <<bursts, burstOpen>>
    /\ UNCHANGED <<watch, githubActions, optionsFile, constructedFrom, initialRun, inflight,
                   pending, events, reruns, lastRunStages, fileAtTrigger, configurators, log,
                   aborts, thisOutputDirectory>>
    /\ UNCHANGED <<chainVars, optVars>>

\* The timer of watcher w fires: await this.run().
TimerFire(w) ==
    /\ timer[w] = 0
    /\ reruns < MaxReruns
    /\ timer' = [timer EXCEPT ![w] = NoTimer]
    /\ reruns' = reruns + 1
    /\ inflight' = inflight + 1
    /\ lastRunStages' = RunStages(pipeRuns, optionsFile)
    /\ fileAtTrigger' = optionsFile
    /\ removals' = RunRemovals(cleanOutput, removals)
    /\ inputFile' = PuppeteerConfiguratorNew(inputFile, inputFile).file
    /\ configurators' = Append(configurators, Configurator(inputFile))
    /\ log' = Append(log, "Command[0]")
    /\ UNCHANGED <<watch, githubActions, optionsFile, constructedFrom, initialRun, pending,
                   events, quiet, burstOpen, bursts, aborts, thisOutputDirectory>>
    /\ UNCHANGED <<chainVarsButFile, ctorVars, outputDir>>

\* A watch-triggered run settles.  A run that succeeded has written the
\* output file, which the watchers registered so far report if its path is
\* watched; this.run() continues with its .then callback.  A run that
\* failed rejects the await of the timer callback, which its .catch handles.
RerunSettle(ok) ==
    /\ inflight > 0
    /\ inflight' = inflight - 1
    /\ \E k \in 1..Len(configurators) :
         /\ inputFile' = PuppeteerFinalize(configurators[k].state, configurators[k].content,
                                           inputFile)
         /\ configurators' = RemoveAt(configurators, k)
    /\ LET seen == ok /\ Len(timer) > 0 /\ OutputWatched(thisOutputDirectory, InputDirectory)
           reported == IF seen THEN [w \in Watchers |-> TRUE] ELSE pending
           registers == RunResolved(ok) /\ WatchEnabled(watch, githubActions)
       IN  /\ timer' = IF registers THEN Append(timer, NoTimer) ELSE timer
           /\ pending' = IF registers THEN Append(reported, FALSE) ELSE reported
           /\ quiet' = IF seen THEN 0 ELSE quiet
           /\ burstOpen' = (burstOpen \/ seen)
    /\ log' = IF ok THEN log ELSE TimerCatch(log, "Error")
    /\ UNCHANGED <<watch, githubActions, optionsFile, constructedFrom, initialRun, events,
                   bursts, reruns, lastRunStages, fileAtTrigger, aborts, thisOutputDirectory>>
    /\ UNCHANGED <<chainVarsButFile, optVars>>

\* The user edits the options file.
EditOptionsFile(f) ==
    /\ f # optionsFile
    /\ optionsFile' = f
    /\ UNCHANGED <<watch, githubActions, constructedFrom, initialRun, inflight, timer,
                   pending, events, quiet, burstOpen, bursts, reruns, lastRunStages,
                   fileAtTrigger, configurators, log, aborts, thisOutputDirectory>>
    /\ UNCHANGED <<chainVars, optVars>>

InitWatch ==
    /\ optionsFile \in SeqsUpTo(JsonFilterNames, MaxJsonFilters)
    /\ pipeRuns = PipeRunsOf(optionsFile)
    /\ constructedFrom = optionsFile
    /\ watch \in WatchValues
    /\ githubActions \in GithubActionsValues
    /\ initialRun = "running"
    /\ inflight = 0
    /\ timer = <<>>
    /\ pending = <<>>
    /\ events = 0
    /\ quiet = WatchWaitTicks
    /\ burstOpen = FALSE
    /\ bursts = 0
    /\ reruns = 0
    /\ lastRunStages = <<>>
    /\ fileAtTrigger = <<>>
    /\ OptionsIdle
    /\ cleanOutput \in BOOLEAN
    /\ outputDir = "fresh"
    /\ removals = (IF cleanOutput THEN 1 ELSE 0)
    /\ log = <<>>
    /\ aborts = 0
    /\ thisOutputDirectory \in OutputDirectories
    /\ outputDiffers = (thisOutputDirectory # InputDirectory)
    /\ runState = "running"
    /\ runError = NoError
    /\ child = [i \in 1..Len(pipeRuns) |-> "none"]
    /\ exitCode = [i \in 1..Len(pipeRuns) |-> Null]
    /\ promise = [i \in 1..Len(pipeRuns) |-> NoPromise]
    /\ spawnCalls = [i \in 1..Len(pipeRuns) |-> 0]
    /\ firstFailure = NoFailure
    /\ priorFile \in WatchedPriorFiles
    /\ inputFile = PuppeteerConfiguratorNew(priorFile, priorFile).file
    /\ configurators = <<Configurator(priorFile)>>
    /\ startFile = Absent
    \* cleanOutput, .puppeteer.json and the output directory vary one at a time
    /\ \/ priorFile = Absent /\ thisOutputDirectory = InputDirectory
       \/ ~cleanOutput /\ thisOutputDirectory = InputDirectory
       \/ ~cleanOutput /\ priorFile = Absent
    /\ cfgState = "none"
    /\ cfgContent = Absent
    /\ fileWrites = 0
    /\ finalized = 0
    /\ copied = "no"
    /\ copySaw = Absent
    /\ mermaidErr = "absent"

NextWatch ==
    \/ \E ok \in BOOLEAN : InitialSettle(ok)
    \/ FileChange
    \/ \E w \in Watchers : OnAll(w)
    \/ Tick
    \/ \E w \in Watchers : TimerFire(w)
    \/ \E ok \in BOOLEAN : RerunSettle(ok)
    \/ \E f \in SeqsUpTo(JsonFilterNames, MaxJsonFilters) : EditOptionsFile(f)

SpecWatch == InitWatch /\ [][NextWatch]_vars

\* ------------------------------------------------------------------------
\* Construction (PandocSpec.constructor) and PandocSpec.arg
\* ------------------------------------------------------------------------

\* A key a source does not define.
Missing == [arr |-> FALSE, items |-> <<>>]

\* The object that defines the keys of r whose value is not Missing.
Strip(r) == [key \in {k \in DOMAIN r : r[k] # Missing} |-> r[key]]

\* Sources that differ in the required keys and in the shape of a value.
ShapeOptions ==
    {Strip([inputFiles |-> a, outputFile |-> b, watchWait |-> c, generateTOC |-> d]) :
       a \in {Missing, Strings(<<"a.md">>), Strings(<<"b.md", "a.md">>)},
       b \in {Missing, Scalar(Str("out.html")), Scalar(Str("spec.html"))},
       c \in {Missing, Scalar(Num("500")), Strings(<<"500">>)},
       d \in {Missing, Scalar(Bool(FALSE)), Scalar(Bool(TRUE))}}

VariableEntries ==
    {Entry("a", Str("1")), Entry("b", Str("2")), Entry("a", Str("3")),
     Entry("toc-header", Str("Contents"))}

StyleLists ==
    {<<Entry("note", Str("box"))>>,
     <<Entry("note", Str("box")), Entry("warn", Str("red")), Entry("note", Str("frame"))>>}

\* Sources that differ in the variables and styles.
VariableOptions ==
    {Strip([variables |-> v, styles |-> s]) :
       v \in {Missing} \cup {Array(vs) : vs \in SeqsUpTo(VariableEntries, MaxVariables)},
       s \in {Missing} \cup {Array(ss) : ss \in StyleLists}}

\* Sources that declare a variable under the key a style derives.
StyleKeyOptions ==
    {Strip([variables |-> v, styles |-> s]) :
       v \in {Missing, Array(<<Entry("note-style", Str("plain"))>>),
              Array(<<Entry("a", Str("1")), Entry("warn-style", Str("bold"))>>)},
       s \in {Missing} \cup {Array(ss) : ss \in StyleLists}}

FilterEntries ==
    {Entry("json", Str("myfilter")), Entry("json", Str("filters/count.py")),
     Entry("lua", Str("first.lua")), Entry("lua", Str("second.lua"))}

\* Sources that differ in the filters, reader options and input files.
ArgumentOptions ==
    {Strip([filters |-> f, additionalReaderOptions |-> r, inputFiles |-> i]) :
       f \in {Missing} \cup {Array(fs) : fs \in SeqsUpTo(FilterEntries, MaxFilters)},
       r \in {Missing,
              Array(<<Entry("--wrap", Str("none")), Entry("--file-scope", Bool(TRUE))>>)},
       i \in {Missing, Strings(<<"c.md", "b.md">>)}}

\* Sources that differ in the single-valued options of the arguments.
FormatOptions ==
    {Strip([outputFormat |-> o, outputDirectory |-> d, verbose |-> v, autoDate |-> t,
            variables |-> h, filters |-> f]) :
       o \in {Missing, Scalar(Str("docx"))},
       d \in {Missing, Scalar(Str("out"))},
       v \in {Missing, Scalar(Bool(TRUE))},
       t \in {Missing, Scalar(Bool(TRUE))},
       h \in {Missing, Array(<<Entry("toc-header", Undefined)>>),
              Array(<<Entry("toc-header", Str(""))>>)},
       f \in {Missing, Array(<<Entry("json", Str("myfilter"))>>)}}

\* The keys a run cannot do without, for the sources that leave them out.
Required == [inputFiles |-> Strings(<<"a.md">>), outputFile |-> Scalar(Str("out.html"))]

Parameters(family) == {NoParameter} \cup {Parameter(o) : o \in family}

\* args of each stage of this._pipeRuns: the filters get the output format.
PipeArgsOf(options) ==
    <<pandocInputArgs(options)>>
    \o [i \in 1..(2 + Len(jsonFilters(options))) |-> <<Word(outputFormat(options).v[1])>>]
    \o <<pandocOutputArgs(options)>>

\* Sources that differ in the options the constructor acts on before it
\* builds the arguments.
EffectOptions ==
    {Strip([cleanOutput |-> c, optionsFile |-> n, outputDirectory |-> d,
            inputFiles |-> r.inputFiles, outputFile |-> r.outputFile]) :
       c \in {Missing, Scalar(Bool(TRUE)), Scalar(Bool(FALSE))},
       n \in {Missing, Scalar(Str("my.options.json"))},
       d \in {Missing, Scalar(Str("out"))},
       r \in {Required, [inputFiles |-> Missing, outputFile |-> Missing]}}

CssLists ==
    {<<Entry("", StrOf(<<"h", "t", "t", "p", ":", "//example.com/x.css">>)),
       Entry("", Str("local.css"))>>,
     <<Entry("", StrOf(<<"c", ":", "/styles/print.css">>)),
       Entry("", StrOf(<<"1", "a", ":", "b.css">>)),
       Entry("", Str("css/site.css"))>>}

\* Sources that differ in the CSS and resource files and in the additional
\* options, with and without a value.
PassthroughOptions ==
    {Strip([additionalReaderOptions |-> r, additionalWriterOptions |-> w, cssFiles |-> c,
            resourceFiles |-> f, outputFormat |-> o]) :
       r \in {Missing,
              Array(<<Entry("--file-scope", Undefined), Entry("--wrap", Str("none"))>>)},
       w \in {Missing,
              Array(<<Entry("--self-contained", Undefined), Entry("--dpi", Str("300"))>>)},
       c \in {Missing} \cup {Array(cs) : cs \in CssLists},
       f \in {Missing, Strings(<<"img/logo.png">>)},
       o \in {Missing, Scalar(Str("docx"))}}

\* exec() with the flags parsed into parameterOptions, or
\* new PandocSpec(parameterOptions): the options file, mergeOptions, the
\* output directory, the arguments and the stage list, process.chdir.
\* A malformed flag makes exec() fail before the constructor is called; the
\* constructor throws what the lookup and mergeOptions throw.
Construct ==
    /\ runState = "new"
    /\ LET read == ReadOptionsFile(fileKind, fileOptions, NamesOptionsFile(parameterOptions))
           merged == IF cliFlags = "malformed" THEN Thrown("Invalid flag")
                     ELSE IF ~read.ok THEN read
                     ELSE mergeOptions(read.options, parameterOptions)
           effects == SideEffects(merged, outputDir, removals, workingDirectory)
       IN  /\ thisOptions' = merged
           /\ outputDir' = effects.outputDir
           /\ removals' = effects.removals
           /\ workingDirectory' = effects.workingDirectory
           /\ IF merged.ok
              THEN /\ runState' = "constructed"
                   /\ pipeRuns' = PipeRunsOf(jsonFilters(merged.options))
                   /\ pipeArgs' = PipeArgsOf(merged.options)
                   /\ outputDiffers' =
                        (outputDirectory(merged.options) # inputDirectory(merged.options))
                   /\ thisInputResourceFiles' = inputResourceFiles(merged.options)
                   /\ cleanOutput' = CleanOutput(merged.options)
              ELSE /\ runState' = "threw"
                   /\ UNCHANGED <<pipeRuns, pipeArgs, outputDiffers, thisInputResourceFiles,
                                  cleanOutput>>
    /\ child' = [i \in 1..Len(pipeRuns') |-> "none"]
    /\ exitCode' = [i \in 1..Len(pipeRuns') |-> Null]
    /\ promise' = [i \in 1..Len(pipeRuns') |-> NoPromise]
    /\ spawnCalls' = [i \in 1..Len(pipeRuns') |-> 0]
    /\ UNCHANGED <<runError, firstFailure, inputFile, cfgState, cfgContent, priorFile, startFile,
                   fileWrites, finalized, copied, copySaw, mermaidErr>>
    /\ UNCHANGED <<watchVars, fileOptions, parameterOptions, argCall, fileKind, cliFlags,
                   copyArgs, copyResult>>

\* Values PandocSpec.arg is called with.
ArgValues ==
    {Undefined, JsNull, Bool(TRUE), Bool(FALSE), Str("html"), Str(""), Str("false"),
     Num("-1"), Num("0")}

\* PandocSpec.arg(option, value, defaultValue).
CallArg(option, value, defaultValue) ==
    /\ argCall' = [called |-> TRUE, option |-> option, value |-> value,
                   defaultValue |-> defaultValue,
                   result |-> arg(option, value, defaultValue)]
    /\ UNCHANGED <<chainVars, watchVars, fileOptions, parameterOptions, thisOptions,
                   pipeArgs, fileKind, cliFlags, cleanOutput, workingDirectory,
                   thisInputResourceFiles, outputDir, removals, copyArgs, copyResult>>

\* No object is constructed yet.
NotConstructed ==
    /\ pipeRuns = <<>>
    /\ outputDiffers = FALSE
    /\ runState = "new"
    /\ runError = NoError
    /\ child = <<>>
    /\ exitCode = <<>>
    /\ promise = <<>>
    /\ spawnCalls = <<>>
    /\ firstFailure = NoFailure
    /\ inputFile = Absent
    /\ cfgState = "none"
    /\ cfgContent = Absent
    /\ priorFile = Absent
    /\ startFile = Absent
    /\ fileWrites = 0
    /\ finalized = 0
    /\ copied = "no"
    /\ copySaw = Absent
    /\ mermaidErr = "absent"
    /\ optionsFile = <<>>
    /\ constructedFrom = <<>>
    /\ watch = "undefined"
    /\ githubActions = "undefined"
    /\ initialRun = "running"
    /\ inflight = 0
    /\ timer = <<>>
    /\ pending = <<>>
    /\ events = 0
    /\ quiet = WatchWaitTicks
    /\ burstOpen = FALSE
    /\ bursts = 0
    /\ reruns = 0
    /\ lastRunStages = <<>>
    /\ fileAtTrigger = <<>>
    /\ configurators = <<>>
    /\ log = <<>>
    /\ aborts = 0
    /\ thisOutputDirectory = <<>>

\* What the constructor is yet to set.
ConstructorIdle ==
    /\ thisOptions = NotMerged
    /\ pipeArgs = <<>>
    /\ argCall = NoCall
    /\ cleanOutput = FALSE
    /\ workingDirectory = Str(Cwd)
    /\ thisInputResourceFiles = <<>>
    /\ removals = 0
    /\ copyArgs = NoCopyArgs
    /\ copyResult = NotCopied

InitOptions ==
    /\ NotConstructed
    /\ \/ /\ fileOptions \in ShapeOptions
          /\ parameterOptions \in Parameters(ShapeOptions)
       \/ /\ fileOptions \in {o @@ Required : o \in VariableOptions}
          /\ parameterOptions \in Parameters(VariableOptions)
       \/ /\ fileOptions \in {o @@ Required : o \in StyleKeyOptions}
          /\ parameterOptions \in Parameters(StyleKeyOptions)
       \/ /\ fileOptions \in {o @@ Required : o \in ArgumentOptions}
          /\ parameterOptions \in Parameters(ArgumentOptions)
       \/ /\ fileOptions \in {o @@ Required : o \in FormatOptions}
          /\ parameterOptions \in Parameters(FormatOptions)
       \/ /\ fileOptions \in {o @@ Required : o \in PassthroughOptions}
          /\ parameterOptions \in Parameters(PassthroughOptions)
    /\ fileKind = "object"
    /\ cliFlags = "valid"
    /\ outputDir = "absent"
    /\ ConstructorIdle

\* Initial states that differ in the options file, the command line and the
\* output directory as well.
InitEffects ==
    /\ NotConstructed
    /\ fileKind \in {"absent", "object", "array", "primitive"}
    /\ fileOptions \in (IF fileKind = "object" THEN EffectOptions ELSE {NoOptions})
    /\ parameterOptions \in Parameters(EffectOptions)
    /\ cliFlags \in (IF parameterOptions.defined THEN {"valid", "malformed"} ELSE {"valid"})
    /\ outputDir \in {"absent", "stale"}
    /\ ConstructorIdle

NextOptions == Construct

SpecOptions == (InitOptions \/ InitEffects) /\ [][NextOptions]_vars

InitArg ==
    /\ NotConstructed
    /\ OptionsIdle
    /\ OutputKept

NextArg ==
    \E option \in {"--toc", "--to"}, value \in ArgValues, defaultValue \in ArgValues :
      CallArg(option, value, defaultValue)

SpecArg == InitArg /\ [][NextArg]_vars

\* ------------------------------------------------------------------------
\* Calls of copyFiles
\* ------------------------------------------------------------------------

\* Files copyFiles is given: relative to the input directory, in the
\* module, and in the input directory by an absolute path.
CopySources ==
    {<<"local.css">>, <<"css", "site.css">>,
     <<"/", "module", "pandoc", "pandoc-spec.css">>,
     <<"/", "work", "in", "img", "logo.png">>}

\* Directories copyFiles is given: an output directory by its absolute
\* path and by a relative one, and the input directory itself.
CopyDirectories == {<<"/", "work", "out">>, <<"out">>, RunDirectory}

CallCopyFiles ==
    /\ ~copyResult.called
    /\ copyArgs # NoCopyArgs
    /\ copyResult' = copyFiles(copyArgs.pattern, copyArgs.toDirectory)
    /\ UNCHANGED <<chainVars, watchVars, fileOptions, parameterOptions, thisOptions,
                   pipeArgs, argCall, fileKind, cliFlags, cleanOutput, workingDirectory,
                   thisInputResourceFiles, outputDir, removals, copyArgs>>

InitCopy ==
    /\ NotConstructed
    /\ fileOptions = NoOptions
    /\ parameterOptions = NoParameter
    /\ thisOptions = NotMerged
    /\ pipeArgs = <<>>
    /\ argCall = NoCall
    /\ fileKind = "object"
    /\ cliFlags = "valid"
    /\ workingDirectory = Str(Cwd)
    /\ thisInputResourceFiles = <<>>
    /\ OutputKept
    /\ copyArgs \in [pattern : SeqsUpTo(CopySources, MaxCopyFiles) \ {<<>>},
                     toDirectory : CopyDirectories]
    /\ copyResult = NotCopied

NextCopy == CallCopyFiles

SpecCopy == InitCopy /\ [][NextCopy]_vars

\* ------------------------------------------------------------------------
\* Properties of the process chain (checked under Spec)
\* ------------------------------------------------------------------------

\* The step in which the promise of runPipes settles.
Settles == runState = "running" /\ runState' \in {"succeeded", "failed"}

\* C1: when a run succeeds, every stage of the chain has closed with exit
\* code 0.  Stated at the step in which the run settles, and only for the
\* stages that have closed by then: none of them closed with another code.
C1_SuccessOnlyIfAllZero ==
    [][(Settles /\ runState' = "succeeded")
         => \A i \in Stages : child'[i] = "closed" => exitCode'[i] = 0]_vars

\* C2: first failure wins.  When a run settles after some stage closed with
\* a nonzero code (no stage was killed by a signal and no spawn call threw),
\* the run fails with the index and code of the first stage observed to
\* close with a nonzero code.
C2_FirstFailureWins ==
    [][(/\ Settles
        /\ firstFailure' # NoFailure
        /\ \A i \in Stages : child'[i] = "closed" => exitCode'[i] # Null
        /\ runError'.kind # "throw")
         => /\ runState' = "failed"
            /\ runError' = [kind |-> "status", index |-> firstFailure'.index,
                            code |-> firstFailure'.code]]_vars

\* C3: when the last stage has closed with a nonzero code k and no earlier
\* stage has closed with a code other than 0, the run has failed and the
\* failure names the last stage and k, whichever stages closed first.
C3_TerminalFailureReported ==
    (/\ child[NStages] = "closed"
     /\ exitCode[NStages] \notin {0, Null}
     /\ \A i \in 1..(NStages - 1) : child[i] = "closed" => exitCode[i] = 0)
      => /\ runState = "failed"
         /\ runError = [kind |-> "status", index |-> NStages, code |-> exitCode[NStages]]

\* C3 witness: every stage closed, the earlier ones with 0 and the last with 2.
C3_Witness ==
    /\ \A i \in 1..(NStages - 1) : child[i] = "closed" /\ exitCode[i] = 0
    /\ child[NStages] = "closed"
    /\ exitCode[NStages] = 2
    /\ runState = "failed"

\* C4: a run in which some stage was killed by a signal (null exit code) is
\* never reported as success.  Stated at the step in which the run settles;
\* which error the failure carries is left open.
C4_SignalNeverSuccess ==
    [][(Settles /\ \E i \in Stages : child'[i] = "closed" /\ exitCode'[i] = Null)
         => runState' = "failed"]_vars

\* C5: no stage is spawned twice, and a stage other than the first is
\* spawned only once its predecessor has emitted "spawn".
C5_SpawnOrder ==
    \A i \in Stages :
      /\ spawnCalls[i] <= 1
      /\ (i > 1 /\ spawnCalls[i] > 0) => child[i - 1] \in {"running", "closed"}

\* C5 witness: a stage has been spawned while its predecessor is still running.
C5_Witness ==
    \E i \in 2..NStages : spawnCalls[i] = 1 /\ child[i] # "none" /\ child[i - 1] = "running"

\* The run is over: its promise has settled or the process has died.
RunOver == runState \in {"succeeded", "failed", "crashed"}

\* C6: the finalizer runs exactly once for every run, whatever its outcome:
\* never twice, and once the run is over it has run.
C6_FinalizerAlwaysRuns ==
    /\ finalized <= 1
    /\ RunOver => finalized = 1

HasNoSandbox(file) == file.exists /\ noSandboxArg \in Range(file.args)

\* C7: after finalize, .puppeteer.json is what it was before the run (absent,
\* or the same text); a file that already had --no-sandbox is never written.
C7_SandboxRoundTrip ==
    /\ finalized >= 1 => inputFile = priorFile
    /\ (runState # "constructed" /\ HasNoSandbox(priorFile)) => fileWrites = 0

\* C7 witness: a finalized run over a file that lacked the flag and was not
\* laid out the way the configurator writes it.
C7_Witness ==
    /\ finalized = 1
    /\ priorFile.exists
    /\ ~HasNoSandbox(priorFile)
    /\ priorFile.fmt # "indent2nl"
    /\ fileWrites = 2

\* ------------------------------------------------------------------------
\* Properties of the change watcher (checked under SpecWatch)
\* ------------------------------------------------------------------------

\* Every event has been handled and every due timer has fired.
Quiescent == \A w \in Watchers : ~pending[w] /\ timer[w] # 0

\* C8: trailing-edge debounce.  Every burst of file changes seen by a
\* watcher and followed by watchWait of silence starts exactly one rerun,
\* the first burst and every later one.
C8_OneRerunPerBurst == Quiescent => reruns = bursts

C10_WatchOnlyWhenEnabled ==
    (Len(timer) > 0 \/ reruns > 0) => (watch = "true" /\ githubActions # "true")

\* C10 witness: a watcher is registered and has triggered a rerun.
C10_Witness == Len(timer) > 0 /\ reruns > 0 /\ initialRun = "succeeded"

\* ------------------------------------------------------------------------
\* Copy of the resource files (checked under Spec)
\* ------------------------------------------------------------------------

\* C11: resource and CSS files are copied only in a run whose chain
\* succeeded and whose output directory differs from the input directory.
\* Stated at the step in which copyFiles is called: no stage of the chain
\* has closed with a nonzero code by then, and the directories differ.
C11_CopyOnlyAfterSuccess ==
    [][(copied = "no" /\ copied' # "no")
         => (firstFailure' = NoFailure /\ outputDiffers)]_vars

\* ------------------------------------------------------------------------
\* Properties of mergeOptions (checked under SpecOptions)
\* ------------------------------------------------------------------------

\* The object the parameter contributes ({} when it is undefined).
ParameterObject == parameterOptions.options

\* The constructor has run as far as mergeOptions: the flags were parsed and
\* the options file gave an object.
MergeCalled ==
    /\ runState # "new"
    /\ cliFlags = "valid"
    /\ ReadOptionsFile(fileKind, fileOptions, NamesOptionsFile(parameterOptions)).ok

\* Keys both sources define, and keys exactly one source defines.
SharedKeys == DOMAIN fileOptions \cap DOMAIN ParameterObject
SingleKeys == (DOMAIN fileOptions \cup DOMAIN ParameterObject) \ SharedKeys

\* The value of a key of SingleKeys in the source that defines it.
SingleValue(key) ==
    IF key \in DOMAIN fileOptions THEN fileOptions[key] ELSE ParameterObject[key]

\* The file's entries of an array-valued key followed by the parameter's.
SourceItems(key) ==
    (IF key \in DOMAIN fileOptions THEN fileOptions[key].items ELSE <<>>)
    \o (IF key \in DOMAIN ParameterObject THEN ParameterObject[key].items ELSE <<>>)

\* Index of the first and of the last entry of items with key (name) k.
FirstIndex(items, k) ==
    CHOOSE i \in 1..Len(items) :
      items[i].k = k /\ \A j \in 1..(i - 1) : items[j].k # k
LastIndex(items, k) ==
    CHOOSE i \in 1..Len(items) :
      items[i].k = k /\ \A j \in (i + 1)..Len(items) : items[j].k # k

HasDuplicates(items) ==
    \E i, j \in 1..Len(items) : i # j /\ items[i].k = items[j].k

\* C12: for every key other than variables and styles that is array-valued
\* in the file options and in the parameter options, the merged array is
\* the file's array followed by the parameter's, its length the sum of the
\* two lengths.
C12_ArraysConcatenate ==
    thisOptions.ok =>
      \A key \in SharedKeys \ {"variables", "styles"} :
        (fileOptions[key].arr /\ ParameterObject[key].arr)
          => /\ thisOptions.options[key].arr
             /\ thisOptions.options[key].items
                  = fileOptions[key].items \o ParameterObject[key].items
             /\ Len(thisOptions.options[key].items)
                  = Len(fileOptions[key].items) + Len(ParameterObject[key].items)

\* C12 witness: both sources declare filters, different ones, and the
\* merge returned.
C12_Witness ==
    /\ thisOptions.ok
    /\ "filters" \in SharedKeys
    /\ fileOptions["filters"].items # <<>>
    /\ ParameterObject["filters"].items # <<>>
    /\ fileOptions["filters"].items # ParameterObject["filters"].items

\* C13: for every key exactly one source defines, the merged options hold
\* that source's value unchanged, variables and styles included.
C13_SingleSourceUnchanged ==
    thisOptions.ok =>
      \A key \in SingleKeys : thisOptions.options[key] = SingleValue(key)

\* C13 as amended: a key exactly one source defines holds that source's
\* value unchanged, except variables and styles: of these the result has
\* one entry per key (name), the last entry the source has for it, and is
\* the source's array when the source has no duplicates.
C13_SingleSourceUnchangedButDuplicates ==
    thisOptions.ok =>
      \A key \in SingleKeys :
        LET src == SingleValue(key)
            out == thisOptions.options[key]
        IN  IF key \in {"variables", "styles"}
            THEN /\ out.arr
                 /\ ~HasDuplicates(out.items)
                 /\ \A i \in 1..Len(src.items) :
                      \E j \in 1..Len(out.items) : out.items[j].k = src.items[i].k
                 /\ \A j \in 1..Len(out.items) :
                      out.items[j] = src.items[LastIndex(src.items, out.items[j].k)]
                 /\ ~HasDuplicates(src.items) => out = src
            ELSE out = src

\* C13 witness: one source alone declares variables, with a key twice, and
\* the merge returned.
C13_Witness ==
    /\ thisOptions.ok
    /\ "variables" \in SingleKeys
    /\ HasDuplicates(SingleValue("variables").items)

\* C14: for a key both sources define, the parameter's value replaces the
\* file's when neither is an array, and the merge throws the configuration
\* error and returns no options when exactly one of the two is an array.
C14_ReplaceOrFail ==
    MergeCalled =>
      /\ (\E key \in SharedKeys : fileOptions[key].arr # ParameterObject[key].arr)
           => thisOptions = Thrown(InvalidOptions)
      /\ thisOptions.ok =>
           \A key \in SharedKeys :
             (~fileOptions[key].arr /\ ~ParameterObject[key].arr)
               => thisOptions.options[key] = ParameterObject[key]

\* C14 witness: the required keys are there, one source has an array for a
\* key and the other a single value, and the constructor has thrown.
C14_Witness ==
    /\ runState = "threw"
    /\ MergeCalled
    /\ isOptions(fileOptions)
    /\ \E key \in SharedKeys : fileOptions[key].arr # ParameterObject[key].arr

\* C15: the merge throws whenever inputFiles or outputFile is defined by
\* neither source, and every options object it returns defines both; no
\* default stands in for a missing one.
C15_RequiredKeys ==
    MergeCalled =>
      /\ ~({"inputFiles", "outputFile"} \subseteq (DOMAIN fileOptions \cup DOMAIN ParameterObject))
           => thisOptions = Thrown(InvalidOptions)
      /\ thisOptions.ok =>
           /\ {"inputFiles", "outputFile"} \subseteq DOMAIN thisOptions.options
           /\ \A key \in {"inputFiles", "outputFile"} :
                key \in SingleKeys => thisOptions.options[key] = SingleValue(key)

\* C15 witness: the sources define inputFiles and not outputFile, the
\* shapes of their values agree, and the constructor has thrown.
C15_Witness ==
    /\ runState = "threw"
    /\ MergeCalled
    /\ "inputFiles" \in DOMAIN fileOptions \cup DOMAIN ParameterObject
    /\ "outputFile" \notin DOMAIN fileOptions \cup DOMAIN ParameterObject
    /\ \A key \in SharedKeys : fileOptions[key].arr = ParameterObject[key].arr

\* C16: the merged variables (styles) hold for each key (name) the value
\* of its last occurrence, at the position of its first occurrence.
C16_LastValueAtFirstPosition ==
    thisOptions.ok =>
      \A key \in {"variables", "styles"} \cap DOMAIN thisOptions.options :
        LET src == SourceItems(key)
            out == thisOptions.options[key].items
        IN  /\ \A a \in 1..Len(out) : out[a] = src[LastIndex(src, out[a].k)]
            /\ \A a, b \in 1..Len(out) :
                 a < b => FirstIndex(src, out[a].k) < FirstIndex(src, out[b].k)

\* C16 as amended: the merged variables (styles) hold for each key (name)
\* its last occurrence only, the survivors in the order of these last
\* occurrences: [{a,1},{b,2},{a,3}] becomes [{b,2},{a,3}].
C16_LastOccurrenceInPlace ==
    thisOptions.ok =>
      \A key \in {"variables", "styles"} \cap DOMAIN thisOptions.options :
        LET src == SourceItems(key)
            out == thisOptions.options[key].items
        IN  /\ \A i \in 1..Len(src) : \E a \in 1..Len(out) : out[a].k = src[i].k
            /\ \A a \in 1..Len(out) : out[a] = src[LastIndex(src, out[a].k)]
            /\ \A a, b \in 1..Len(out) :
                 a < b => LastIndex(src, out[a].k) < LastIndex(src, out[b].k)

\* C16 witness: the variables [{a,1},{b,2}] of the file followed by [{a,3}]
\* of the parameter have been merged.
C16_Witness ==
    /\ thisOptions.ok
    /\ SourceItems("variables")
         = <<Entry("a", Str("1")), Entry("b", Str("2")), Entry("a", Str("3"))>>
    /\ thisOptions.options["variables"].items
         = <<Entry("b", Str("2")), Entry("a", Str("3"))>>

\* ------------------------------------------------------------------------
\* Properties of the arguments and stages (checked under SpecOptions, and
\* under SpecArg for PandocSpec.arg)
\* ------------------------------------------------------------------------

\* The arguments of the first and of the last stage.
InputArgs == pipeArgs[1]
OutputArgs == pipeArgs[Len(pipeArgs)]

\* The --variable arguments of the template variable toc-header.
IsTocHeaderArg(a) ==
    /\ a.opt = "--variable"
    /\ a.eq
    /\ \/ a.val = <<"toc-header">>
       \/ Len(a.val) >= 2 /\ a.val[1] = "toc-header" /\ a.val[2] = ":"
TocHeaderArgs == {i \in 1..Len(OutputArgs) : IsTocHeaderArg(OutputArgs[i])}

\* The merged variables whose key is toc-header.
UserTocHeaders ==
    {i \in 1..Len(Items(thisOptions.options, "variables")) :
       Items(thisOptions.options, "variables")[i].k = "toc-header"}

\* C17: the arguments of the output stage hold one --variable argument for
\* toc-header: toc-header:Table of Contents exactly when the merged
\* variables have no key toc-header, and otherwise the user's own variable
\* and no synthesized one.
C17_TocHeaderDefault ==
    runState = "constructed" =>
      /\ Cardinality(TocHeaderArgs) = 1
      /\ \A i \in TocHeaderArgs :
           IF UserTocHeaders = {}
           THEN OutputArgs[i]
                  = OptionValue("--variable", <<"toc-header", ":", "Table of Contents">>)
           ELSE \E u \in UserTocHeaders :
                  LET value == Items(thisOptions.options, "variables")[u].v
                  IN  OutputArgs[i]
                        = OptionValue("--variable",
                                      IF value = Undefined THEN <<"toc-header">>
                                      ELSE <<"toc-header", ":">> \o value.v)

\* C17 witness: the user declares toc-header with the value Contents, and
\* the output arguments carry it.
C17_Witness ==
    /\ runState = "constructed"
    /\ UserTocHeaders # {}
    /\ \E i \in TocHeaderArgs :
         OutputArgs[i] = OptionValue("--variable", <<"toc-header", ":", "Contents">>)

\* The value arg works with: the value if it is defined (neither undefined
\* nor null), else the default.
FinalValue ==
    IF argCall.value \notin {Undefined, JsNull} THEN argCall.value ELSE argCall.defaultValue

DeclaredLuaFilters ==
    SelectSeq(Items(thisOptions.options, "filters"), LAMBDA f : f.k # "json")
DeclaredJsonFilters ==
    SelectSeq(Items(thisOptions.options, "filters"), LAMBDA f : f.k = "json")

\* The argument an additional option yields: option=value for one with a
\* value (true: the bare option), the empty string for one without.
ReaderArg(o) ==
    IF o.v = Undefined THEN NoToken
    ELSE IF o.v = Bool(TRUE) THEN Word(o.k) ELSE OptionValue(o.k, o.v.v)

\* C19: the input arguments end with the two bundled include filters
\* (include-files, then include-code-files), the user's Lua filters in
\* declared order, the arguments of the reader options in declared order,
\* and the input files in declared order; no Lua filter comes before the
\* bundled ones.
C19_InputArgsOrder ==
    runState = "constructed" =>
      LET lua == DeclaredLuaFilters
          reader == Items(thisOptions.options, "additionalReaderOptions")
          files == Items(thisOptions.options, "inputFiles")
          tail == <<OptionValue("--lua-filter", <<ModuleRoot, "pandoc/include-files.lua">>),
                    OptionValue("--lua-filter", <<ModuleRoot, "pandoc/include-code-files.lua">>)>>
                  \o [i \in 1..Len(lua) |->
                        OptionValue("--lua-filter", <<Cwd, "/">> \o lua[i].v.v)]
                  \o NonEmpty(<<>> \o [i \in 1..Len(reader) |-> ReaderArg(reader[i])])
                  \o [i \in 1..Len(files) |-> Word(files[i].v.v[1])]
          n == Len(InputArgs) - Len(tail)
      IN  /\ n >= 0
          /\ SubSeq(InputArgs, n + 1, Len(InputArgs)) = tail
          /\ \A i \in 1..n : InputArgs[i].opt # "--lua-filter"

\* C19 witness: two different Lua filters, reader options and several
\* input files are declared, and the object is constructed.
C19_Witness ==
    /\ runState = "constructed"
    /\ Len(DeclaredLuaFilters) >= 2
    /\ DeclaredLuaFilters[1] # DeclaredLuaFilters[2]
    /\ Len(Items(thisOptions.options, "additionalReaderOptions")) >= 2
    /\ Len(Items(thisOptions.options, "inputFiles")) >= 2

\* C20: with n user json filters the stage list has n + 4 stages: pandoc
\* first and last, the two bundled filters second and third, the user's
\* json filters next in declared order; the arguments of every filter stage
\* are the output format alone; Lua filters add no stage.
C20_StageList ==
    runState = "constructed" =>
      LET json == DeclaredJsonFilters
          n == Len(json)
          format == IF "outputFormat" \in DOMAIN thisOptions.options
                    THEN thisOptions.options["outputFormat"].items[1].v.v[1]
                    ELSE "html"
      IN  /\ Len(pipeRuns) = n + 4
          /\ Len(pipeArgs) = n + 4
          /\ pipeRuns[1] = "pandoc"
          /\ pipeRuns[n + 4] = "pandoc"
          /\ {pipeRuns[2], pipeRuns[3]} = {"mermaid-filter", "pandoc-defref"}
          /\ \A i \in 1..n :
               pipeRuns[3 + i] \in {json[i].v.v[1], ResolvedCommand(json[i].v.v[1])}
          /\ \A i \in 2..(n + 3) : pipeArgs[i] = <<Word(format)>>

\* C20 witness: two different json filters and a Lua filter are declared,
\* the output format is docx or the default, and the object is constructed.
C20_Witness ==
    /\ runState = "constructed"
    /\ Len(DeclaredJsonFilters) >= 2
    /\ DeclaredJsonFilters[1] # DeclaredJsonFilters[2]
    /\ DeclaredLuaFilters # <<>>

\* C21: in the stage list pandoc-defref comes immediately before
\* mermaid-filter, and both come before every json filter of the user.
C21_DefrefBeforeMermaid ==
    runState = "constructed" =>
      /\ pipeRuns[2] = "pandoc-defref"
      /\ pipeRuns[3] = "mermaid-filter"
      /\ \A i \in 1..Len(DeclaredJsonFilters) :
           pipeRuns[3 + i] \notin {"pandoc-defref", "mermaid-filter"}

\* C21 as amended: in the stage list mermaid-filter comes immediately
\* before pandoc-defref, and both come before every json filter of the user.
C21_MermaidBeforeDefref ==
    runState = "constructed" =>
      /\ pipeRuns[2] = "mermaid-filter"
      /\ pipeRuns[3] = "pandoc-defref"
      /\ \A i \in 4..(Len(pipeRuns) - 1) :
           /\ pipeRuns[i] \notin {"pandoc-defref", "mermaid-filter"}
           /\ pipeRuns[i] \in {DeclaredJsonFilters[i - 3].v.v[1],
                                ResolvedCommand(DeclaredJsonFilters[i - 3].v.v[1])}

\* C21 witness: an object constructed with a json filter of the user.
C21_Witness ==
    /\ runState = "constructed"
    /\ DeclaredJsonFilters # <<>>
    /\ Len(pipeRuns) = Len(DeclaredJsonFilters) + 4

\* The argument the documentation gives an additional option: the bare
\* option for one without a value, option=value for one with a value.
PassthroughArg(o) == IF o.v = Undefined THEN Word(o.k) ELSE OptionValue(o.k, o.v.v)

\* C22: every additional reader option appears in the input arguments, just
\* before the input files, and every additional writer option at the end
\* of the output arguments, in declared order: the bare option for an entry
\* without a value, option=value for an entry with one.
C22_AdditionalOptionsPassed ==
    runState = "constructed" =>
      LET reader == Items(thisOptions.options, "additionalReaderOptions")
          writer == Items(thisOptions.options, "additionalWriterOptions")
          files == Len(Items(thisOptions.options, "inputFiles"))
      IN  /\ Len(InputArgs) >= Len(reader) + files
          /\ \A i \in 1..Len(reader) :
               InputArgs[Len(InputArgs) - files - Len(reader) + i] = PassthroughArg(reader[i])
          /\ Len(OutputArgs) >= Len(writer)
          /\ \A i \in 1..Len(writer) :
               OutputArgs[Len(OutputArgs) - Len(writer) + i] = PassthroughArg(writer[i])

\* The CSS files of the merged options, and the --css arguments.
CssFiles == Items(thisOptions.options, "cssFiles")
CssArgs == SelectSeq(OutputArgs, LAMBDA a : a.opt = "--css")

\* The text starts with a letter, one or more letters, digits, "+", "-" or
\* ".", and a colon.
IsAbsoluteURI(text) ==
    \E n \in 2..(Len(text.v) - 1) :
      /\ text.v[n + 1] = ":"
      /\ text.v[1] \in Letters
      /\ \A i \in 2..n : text.v[i] \in Letters \cup Digits \cup {"+", "-", "."}

\* The bundled CSS assets, resolved against the module.
CoreCssAssets ==
    <<StrOf(<<ModuleRoot, "pandoc/pandoc-spec.scss">>),
      StrOf(<<ModuleRoot, "pandoc/pandoc-spec.css">>),
      StrOf(<<ModuleRoot, "pandoc/pandoc-spec.css.map">>)>>

DocumentedDestination(sourceFile) ==
    PathResolve(copyArgs.toDirectory)
    \o (IF IsAbsolutePath(sourceFile) THEN <<sourceFile[Len(sourceFile)]>> ELSE sourceFile)

\* C24: copyFiles copies a file with a relative path to the same relative
\* path under the output directory and a file with an absolute path to the
\* root of the output directory under its base name, and it throws exactly
\* when some file and its destination are the same absolute path.
C24_CopyDestinations ==
    copyResult.called =>
      LET sources == copyArgs.pattern
          clash == \E i \in 1..Len(sources) :
                     DocumentedDestination(sources[i]) = PathResolve(sources[i])
      IN  /\ copyResult.threw <=> clash
          /\ ~copyResult.threw =>
               copyResult.copies
                 = [i \in 1..Len(sources) |->
                      [from |-> sources[i], to |-> DocumentedDestination(sources[i])]]

\* ------------------------------------------------------------------------
\* Properties of the options file and of failed constructions (checked
\* under SpecOptions)
\* ------------------------------------------------------------------------

\* C25: when the caller names an options file that does not exist the
\* constructor throws and no stage list is built; when the caller names
\* none and the default file does not exist the options are those of the
\* parameter alone; when the file exists its options are the base: every
\* key of the file is in the result, with the file's value unless the
\* parameter defines the key too.
C25_OptionsFilePrecedence ==
    (runState # "new" /\ cliFlags = "valid") =>
      /\ (fileKind = "absent" /\ NamesOptionsFile(parameterOptions))
           => /\ runState = "threw"
              /\ thisOptions = Thrown("Options file not found")
              /\ pipeRuns = <<>>
      /\ (fileKind = "absent" /\ ~NamesOptionsFile(parameterOptions))
           => /\ thisOptions.ok <=> isOptions(ParameterObject)
              /\ thisOptions.ok => thisOptions.options = ParameterObject
      /\ (fileKind = "object" /\ thisOptions.ok)
           => \A key \in DOMAIN fileOptions :
                /\ key \in DOMAIN thisOptions.options
                /\ (key \notin DOMAIN ParameterObject /\ key \notin {"variables", "styles"})
                     => thisOptions.options[key] = fileOptions[key]

\* C25 witness: the parameter names an options file and has the required
\* keys, the file does not exist, and the constructor has thrown.
C25_Witness ==
    /\ runState = "threw"
    /\ cliFlags = "valid"
    /\ fileKind = "absent"
    /\ NamesOptionsFile(parameterOptions)
    /\ isOptions(ParameterObject)

\* C26: a construction that fails changes nothing: no stage list and no
\* spawn, the output directory neither removed nor created, the working
\* directory and .puppeteer.json as they were.
C26_FailureHasNoEffect ==
    [][runState' = "threw"
         => /\ pipeRuns' = <<>>
            /\ spawnCalls' = <<>>
            /\ outputDir' = outputDir
            /\ removals' = removals
            /\ workingDirectory' = workingDirectory
            /\ inputFile' = inputFile
            /\ fileWrites' = fileWrites]_vars

\* C26 witness: the constructor has thrown for options that ask for
\* cleanOutput and lack the required keys, the output directory absent.
C26_Witness ==
    /\ runState = "threw"
    /\ MergeCalled
    /\ "cleanOutput" \in DOMAIN ParameterObject
    /\ ParameterObject["cleanOutput"] = Scalar(Bool(TRUE))
    /\ outputDir = "absent"

\* ------------------------------------------------------------------------
\* Properties of the output directory under watch (checked under SpecWatch)
\* ------------------------------------------------------------------------

\* C27: with cleanOutput the output directory has been removed exactly
\* once, by the constructor before the first run, whatever the number of
\* reruns the watcher has started; without it, never.
C27_CleanedOnce ==
    /\ cleanOutput => removals = 1
    /\ ~cleanOutput => removals = 0

\* C27 witness: cleanOutput is set, the watcher has started two reruns, and
\* the directory has been removed once.
C27_Witness ==
    /\ cleanOutput
    /\ reruns >= 2
    /\ removals = 1

\* ------------------------------------------------------------------------
\* Termination of a run (checked under SpecLive)
\* ------------------------------------------------------------------------

\* C28: every run that has started eventually succeeds or fails, given
\* that every child that was spawned emits its events and every running
\* child closes.
C28_RunSettles ==
    (runState = "running") ~> (runState \in {"succeeded", "failed"})

\* ------------------------------------------------------------------------
\* Order of the copy and the finalizer (checked under Spec)
\* ------------------------------------------------------------------------

\* C29: the finalizer runs before the resource copy, so that the copy finds
\* .puppeteer.json in the input directory as it was before the run (absent,
\* or with its original content), never the file the run wrote.
C29_CopyAfterFinalize ==
    copied # "no" => copySaw = priorFile

\* ------------------------------------------------------------------------
\* .puppeteer.json while runs overlap (checked under SpecWatch)
\* ------------------------------------------------------------------------

\* C30: while at least one run is in flight (its PuppeteerConfigurator is
\* constructed and its finalizer has not run) .puppeteer.json exists in
\* the input directory and its args contain --no-sandbox.
C30_SandboxConfigWhileInFlight ==
    Len(configurators) > 0
      => inputFile.exists /\ inputFile.hasArgs /\ noSandboxArg \in Range(inputFile.args)

\* ------------------------------------------------------------------------
\* Serialization of reruns, watchers and timers (checked under SpecWatch)
\* ------------------------------------------------------------------------

\* C31: reruns are serialized: at no time is more than one run in flight,
\* so a timer that fires while a run is executing starts no second run.
C31_RerunsSerialized ==
    Len(configurators) <= 1

\* C32: once watching has begun there is exactly one watcher, and at most
\* one debounce timer that is pending (neither cancelled nor fired),
\* whatever events and reruns have occurred.
C32_OneWatcherOneTimer ==
    (initialRun = "succeeded" /\ WatchEnabled(watch, githubActions))
      => /\ Len(timer) = 1
         /\ Cardinality({w \in Watchers : timer[w] # NoTimer}) <= 1

\* C33: the files a run writes never make a watcher report an event: the
\* step in which a rerun settles leaves no event waiting that was not
\* waiting before, whatever the output directory.
C33_OwnWritesUnwatched ==
    [][inflight' < inflight => \A w \in Watchers : pending'[w] = pending[w]]_vars

\* C34: the cancellation of a pending timer by a newer event logs nothing
\* and starts no rerun.
C34_AbortIsSilent ==
    [][aborts' > aborts
         => /\ log' = log
            /\ reruns' = reruns
            /\ inflight' = inflight]_vars

\* C34 witness: a pending timer has been cancelled, and a rerun has been
\* started since the watch began.
C34_Witness ==
    /\ aborts > 0
    /\ reruns > 0

\* C35: when a rerun settles every watcher stays registered with its timer
\* as it was, and a rerun that failed (it registers no further watcher) is
\* logged as an error.
C35_FailedRerunKeepsWatching ==
    [][inflight' < inflight
         => /\ Len(timer') >= Len(timer)
            /\ \A w \in Watchers : timer'[w] = timer[w]
            /\ Len(timer') = Len(timer) => log' = Append(log, "Timer failed")]_vars

\* C35 witness: a rerun has failed and was logged, and the latest rerun was
\* started after that and is still running.
C35_Witness ==
    \E i \in DOMAIN log :
      /\ log[i] = "Timer failed"
      /\ i < Len(log)
      /\ log[Len(log)] = "Command[0]"
      /\ inflight = 1

\* C36: if the initial run fails no watcher is registered and no rerun is
\* ever started, whatever options.watch is.
C36_NoWatchAfterFailedFirstRun ==
    initialRun = "failed" => (Len(timer) = 0 /\ reruns = 0 /\ log = <<>>)

\* C36 witness: watching is enabled, the initial run has failed, and files
\* have changed since.
C36_Witness ==
    /\ initialRun = "failed"
    /\ WatchEnabled(watch, githubActions)
    /\ events > 0

\* ------------------------------------------------------------------------
\* .puppeteer.json of the starting directory (checked under Spec)
\* ------------------------------------------------------------------------

\* C37: when .puppeteer.json is absent from the input directory and present
\* in the directory the process was started in, the file the run writes
\* into the input directory holds the settings of the starting directory's
\* file with --no-sandbox added to args, and the finalizer deletes it.
C37_StartingDirectorySettings ==
    (~priorFile.exists /\ startFile.exists)
      => /\ (runState = "running" /\ finalized = 0)
              => inputFile = JSONStringify2([hasArgs |-> TRUE,
                                             args |-> Append(JSONParse(startFile).args,
                                                             noSandboxArg)])
         /\ finalized >= 1 => inputFile = Absent

\* ------------------------------------------------------------------------
\* Content of the options file (checked under SpecOptions)
\* ------------------------------------------------------------------------

\* C38: an options file whose JSON content is not an object (null, a
\* scalar or an array) makes the constructor throw before it merges
\* anything and before any stage list exists, whatever the parameter
\* options are.
C38_NonObjectRejected ==
    (runState # "new" /\ cliFlags = "valid" /\ fileKind \in {"array", "primitive"})
      => /\ runState = "threw"
         /\ thisOptions = Thrown("does not contain an object")
         /\ pipeRuns = <<>>

\* The key of a --variable argument: the parts of its text before the colon.
RECURSIVE KeyOf(_)
KeyOf(parts) ==
    IF parts = <<>> \/ Head(parts) = ":" THEN <<>>
    ELSE <<Head(parts)>> \o KeyOf(Tail(parts))

VariableArgs == {i \in 1..Len(OutputArgs) : OutputArgs[i].opt = "--variable"}

\* C39: in the arguments of the output stage no two --variable arguments have
\* the same key, whether the key was declared in options.variables, derived
\* from a style as <name>-style, or is the synthesized toc-header.
C39_UniqueVariableKeys ==
    (runState = "constructed" /\ MergeCalled)
      => \A i, j \in VariableArgs :
           KeyOf(OutputArgs[i].val) = KeyOf(OutputArgs[j].val) => i = j

====
